---- MODULE Spec2Model ----
(***************************************************************************)
(* Profitable-crops endpoint of the Agri-Smart backend                     *)
(* (src/app/apis/profitable_crops.py): the request handler                 *)
(* predict_profitable_crops, the per-crop scoring function                 *)
(* analyze_crop_profitability, the ranking and the recommendation texts.   *)
(*                                                                         *)
(* Numbers.  A Python float is modelled by the exact rational it stands    *)
(* for, kept as a pair <<numerator, denominator>> in lowest terms with a   *)
(* positive denominator.  <<n, 0>> is not a number: <<1, 0>> is a request  *)
(* value float() raises ValueError on, <<2, 0>> one it raises TypeError    *)
(* on, <<0, 0>> the result of a division by zero.  round(x, k) is rounding *)
(* to k decimals, ties to even.  The                                       *)
(* binary rounding error of IEEE-754 doubles (about 1e-16 relative) is not *)
(* modelled: where a value lies exactly halfway between two k-decimal      *)
(* numbers, CPython rounds the double nearest to it, which may go either   *)
(* way; the model rounds it to even.  The properties below bound a rounded *)
(* value by half a unit inclusive, so that they cover both directions.     *)
(***************************************************************************)
EXTENDS Integers, Sequences, FiniteSets, TLC

VARIABLES pc, soil_data, crop_analyses, response, predictions,
          crop_data, fertilizer_prices, calls

\* The demo authentication API (src/app/apis/auth_simple.py): the Supabase
\* client of the module, the users table behind it, the module's dictionary
\* of mock users, and the last request to the API with its response.
VARIABLES supabase, users, MOCK_USERS, auth_request, auth_response

auth_vars == <<supabase, users, MOCK_USERS, auth_request, auth_response>>

vars ==
  <<pc, soil_data, crop_analyses, response, predictions, crop_data,
    fertilizer_prices, calls, auth_vars>>

----------------------------------------------------------------------------
(* Rational arithmetic: the float operations of the source. *)

Abs(x) == IF x < 0 THEN -x ELSE x

RECURSIVE Gcd(_, _)
Gcd(a, b) == IF b = 0 THEN a ELSE Gcd(b, a % b)

\* The rational n/d (d # 0) in lowest terms with a positive denominator.
Rat(n, d) ==
  LET s == IF d < 0 THEN -1 ELSE 1
      g == Gcd(Abs(n), Abs(d))
  IN  <<(s * n) \div g, (s * d) \div g>>

Num(n) == <<n, 1>>

IsNum(x) == x[2] # 0

DivZero == <<0, 0>>

RNeg(a) == <<-a[1], a[2]>>

RAdd(a, b) ==
  LET g == Gcd(a[2], b[2])
  IN  Rat(a[1] * (b[2] \div g) + b[1] * (a[2] \div g), a[2] * (b[2] \div g))

RSub(a, b) == RAdd(a, RNeg(b))

\* Cross-cancelled before multiplying, so that the products stay small.
RMul(a, b) ==
  LET g1 == Gcd(Abs(a[1]), b[2])
      g2 == Gcd(Abs(b[1]), a[2])
  IN  IF a[1] = 0 \/ b[1] = 0 THEN <<0, 1>>
      ELSE <<(a[1] \div g1) * (b[1] \div g2), (a[2] \div g2) * (b[2] \div g1)>>

\* Python's a / b: ZeroDivisionError when b is zero.
RDiv(a, b) ==
  IF b[1] = 0 THEN DivZero
  ELSE RMul(a, IF b[1] < 0 THEN <<-b[2], -b[1]>> ELSE <<b[2], b[1]>>)

RSign(a) == IF a[1] > 0 THEN 1 ELSE IF a[1] < 0 THEN -1 ELSE 0

RLe(a, b) == a[1] * b[2] <= b[1] * a[2]

RLt(a, b) == a[1] * b[2] < b[1] * a[2]

\* Python's max(0, x) and min(1.0, x).
RMax0(x) == IF RSign(x) > 0 THEN x ELSE <<0, 1>>

RMin1(x) == IF x[1] < x[2] THEN x ELSE <<1, 1>>

Pow10(k) == IF k = 0 THEN 1 ELSE IF k = 1 THEN 10 ELSE 100

\* Python's round(x, k), k in 0..2: the nearest multiple of 10^-k, a tie
\* going to the even one.  Long division keeps the intermediate values small.
Round(x, k) ==
  IF ~IsNum(x) THEN x
  ELSE
  LET s  == Pow10(k)
      ip == x[1] \div x[2]
      r  == x[1] % x[2]
      f  == (r * s) \div x[2]
      r2 == (r * s) % x[2]
      m0 == ip * s + f
      m  == IF 2 * r2 > x[2] THEN m0 + 1
            ELSE IF 2 * r2 < x[2] THEN m0
            ELSE IF m0 % 2 = 0 THEN m0 ELSE m0 + 1
  IN  Rat(m, s)

----------------------------------------------------------------------------
(* The catalog and the price table. *)

CROP_DATA ==
  [ wheat     |-> [ name |-> "Wheat",
                    nutrient_requirements |->
                      [ N |-> Num(120), P |-> Num(60), K |-> Num(40),
                        pH_min |-> Rat(60, 10), pH_max |-> Rat(75, 10) ],
                    base_yield |-> Rat(45, 10), market_price |-> Num(250),
                    growing_season |-> 120, water_requirement |-> "medium" ],
    rice      |-> [ name |-> "Rice",
                    nutrient_requirements |->
                      [ N |-> Num(100), P |-> Num(50), K |-> Num(50),
                        pH_min |-> Rat(55, 10), pH_max |-> Rat(70, 10) ],
                    base_yield |-> Rat(50, 10), market_price |-> Num(350),
                    growing_season |-> 150, water_requirement |-> "high" ],
    corn      |-> [ name |-> "Corn",
                    nutrient_requirements |->
                      [ N |-> Num(150), P |-> Num(70), K |-> Num(60),
                        pH_min |-> Rat(60, 10), pH_max |-> Rat(70, 10) ],
                    base_yield |-> Rat(60, 10), market_price |-> Num(175),
                    growing_season |-> 100, water_requirement |-> "medium" ],
    cotton    |-> [ name |-> "Cotton",
                    nutrient_requirements |->
                      [ N |-> Num(80), P |-> Num(40), K |-> Num(80),
                        pH_min |-> Rat(58, 10), pH_max |-> Rat(80, 10) ],
                    base_yield |-> Rat(25, 10), market_price |-> Num(1200),
                    growing_season |-> 180, water_requirement |-> "high" ],
    sugarcane |-> [ name |-> "Sugarcane",
                    nutrient_requirements |->
                      [ N |-> Num(200), P |-> Num(80), K |-> Num(160),
                        pH_min |-> Rat(60, 10), pH_max |-> Rat(75, 10) ],
                    base_yield |-> Rat(700, 10), market_price |-> Num(35),
                    growing_season |-> 365, water_requirement |-> "very_high" ],
    soybean   |-> [ name |-> "Soybean",
                    nutrient_requirements |->
                      [ N |-> Num(60), P |-> Num(80), K |-> Num(100),
                        pH_min |-> Rat(60, 10), pH_max |-> Rat(70, 10) ],
                    base_yield |-> Rat(30, 10), market_price |-> Num(400),
                    growing_season |-> 120, water_requirement |-> "medium" ] ]

\* CROP_DATA.items() iterates in insertion order.
CROP_ORDER == <<"wheat", "rice", "corn", "cotton", "sugarcane", "soybean">>

CropIds == {CROP_ORDER[i] : i \in 1..Len(CROP_ORDER)}

FERTILIZER_PRICES ==
  [ urea |-> Num(25), dap |-> Num(35), mop |-> Num(20), organic |-> Num(15) ]

\* base_costs_per_ha.get(crop_id, 200)
base_costs_per_ha ==
  [ wheat |-> Num(200), rice |-> Num(250), corn |-> Num(180),
    cotton |-> Num(300), sugarcane |-> Num(500), soybean |-> Num(150) ]

\* Faulty variant: the default of 200 charged for every crop.
other_costs_default(crop_id) == Num(200)

other_costs(crop_id) ==
  IF crop_id \in DOMAIN base_costs_per_ha THEN base_costs_per_ha[crop_id]
  ELSE Num(200)

----------------------------------------------------------------------------
(* analyze_crop_profitability and calculate_nutrient_efficiency. *)

\* pH_min <= soil_ph <= pH_max
ph_suitable(crop_info, soil_ph) ==
  /\ RLe(crop_info.nutrient_requirements.pH_min, soil_ph)
  /\ RLe(soil_ph, crop_info.nutrient_requirements.pH_max)

\* Faulty variant: the 30% penalty taken for the factor.
ph_factor_penalty(suitable) == IF suitable THEN Num(1) ELSE Rat(3, 10)

\* 1.0 if ph_suitable else 0.7
ph_factor(suitable) == IF suitable THEN Num(1) ELSE Rat(7, 10)

\* Faulty variant: the difference without the floor at 0.
deficit_unclamped(requirement, current) == RSub(requirement, current)

\* max(0, requirement - current): n_deficit, p_deficit, k_deficit
deficit(requirement, current) == RMax0(RSub(requirement, current))

\* kg per hectare: urea is 46% N, DAP 46% P2O5, MOP 60% K2O
urea_needed(n_deficit) == RDiv(n_deficit, Rat(46, 100))

dap_needed(p_deficit) == RDiv(p_deficit, Rat(46, 100))

mop_needed(k_deficit) == RDiv(k_deficit, Rat(60, 100))

\* Faulty variant: the bag price charged per kilogram.
fertilizer_cost_per_kg(urea, dap, mop) ==
  RAdd(RAdd(RMul(urea, FERTILIZER_PRICES.urea), RMul(dap, FERTILIZER_PRICES.dap)),
       RMul(mop, FERTILIZER_PRICES.mop))

\* 50 kg bags at the price the table has when the function runs
fertilizer_cost_per_ha(urea, dap, mop) ==
  RAdd(RAdd(RMul(RDiv(urea, Num(50)), fertilizer_prices.urea),
            RMul(RDiv(dap, Num(50)), fertilizer_prices.dap)),
       RMul(RDiv(mop, Num(50)), fertilizer_prices.mop))

\* Faulty variant: the ratio without the cap at 1.
efficiency_uncapped(current, requirement) ==
  IF RSign(requirement) > 0 THEN RDiv(current, requirement) ELSE Num(1)

\* min(1.0, current / requirement) if requirement > 0 else 1.0
efficiency(current, requirement) ==
  IF RSign(requirement) > 0 THEN RMin1(RDiv(current, requirement)) ELSE Num(1)

calculate_nutrient_efficiency(current_n, current_p, current_k, requirements) ==
  RAdd(RAdd(RMul(efficiency(current_n, requirements.N), Rat(5, 10)),
            RMul(efficiency(current_p, requirements.P), Rat(3, 10))),
       RMul(efficiency(current_k, requirements.K), Rat(2, 10)))

\* Faulty variant: the division without the total_cost > 0 guard.
roi_unguarded(net_profit, total_cost) ==
  LET q == RDiv(net_profit, total_cost)
  IN  IF IsNum(q) THEN RMul(q, Num(100)) ELSE q

\* (net_profit / total_cost * 100) if total_cost > 0 else 0
roi(net_profit, total_cost) ==
  IF RSign(total_cost) > 0
  THEN LET q == RDiv(net_profit, total_cost)
       IN  IF IsNum(q) THEN RMul(q, Num(100)) ELSE q
  ELSE Num(0)

\* The local variables of analyze_crop_profitability, before any rounding,
\* block by block.  Lines 169-176: pH suitability and nutrient deficiencies.
soil_check(crop_info, current_n, current_p, current_k, soil_ph) ==
  [ ph_suitable |-> ph_suitable(crop_info, soil_ph),
    ph_factor |-> ph_factor(ph_suitable(crop_info, soil_ph)),
    n_deficit |-> deficit(crop_info.nutrient_requirements.N, current_n),
    p_deficit |-> deficit(crop_info.nutrient_requirements.P, current_p),
    k_deficit |-> deficit(crop_info.nutrient_requirements.K, current_k) ]

\* Lines 178-181: fertilizer requirements.
fertilizer_requirements(v) ==
  v @@ [ urea_needed |-> urea_needed(v.n_deficit),
         dap_needed |-> dap_needed(v.p_deficit),
         mop_needed |-> mop_needed(v.k_deficit) ]

\* Lines 183-192: fertilizer cost and yield potential.
yield_potential(crop_info, current_n, current_p, current_k, v) ==
  v @@ [ fertilizer_cost_per_ha |->
           fertilizer_cost_per_ha(v.urea_needed, v.dap_needed, v.mop_needed),
         nutrient_efficiency |->
           calculate_nutrient_efficiency(current_n, current_p, current_k,
                                         crop_info.nutrient_requirements),
         expected_yield |->
           RMul(RMul(crop_info.base_yield,
                     calculate_nutrient_efficiency(current_n, current_p, current_k,
                                                   crop_info.nutrient_requirements)),
                v.ph_factor) ]

\* Faulty variant: the crop's other costs left out of the total cost.
economics_fertilizer_only(crop_id, crop_info, v) ==
  v @@ [ revenue_per_ha |-> RMul(v.expected_yield, crop_info.market_price),
         total_cost_per_ha |-> v.fertilizer_cost_per_ha,
         net_profit_per_ha |->
           RSub(RMul(v.expected_yield, crop_info.market_price),
                v.fertilizer_cost_per_ha) ]

\* Lines 194-205: economics per hectare.
economics(crop_id, crop_info, v) ==
  v @@ [ revenue_per_ha |-> RMul(v.expected_yield, crop_info.market_price),
         total_cost_per_ha |-> RAdd(v.fertilizer_cost_per_ha, other_costs(crop_id)),
         net_profit_per_ha |->
           RSub(RMul(v.expected_yield, crop_info.market_price),
                RAdd(v.fertilizer_cost_per_ha, other_costs(crop_id))) ]

\* Faulty variant: total_cost not scaled by the farm's size.
scale_to_farm_cost_per_ha(v, farm_size) ==
  v @@ [ total_revenue |-> RMul(v.revenue_per_ha, farm_size),
         total_cost |-> v.total_cost_per_ha,
         net_profit |-> RMul(v.net_profit_per_ha, farm_size),
         roi |-> roi(RMul(v.net_profit_per_ha, farm_size), v.total_cost_per_ha) ]

\* Faulty variant: net_profit left per hectare.
scale_to_farm_net_per_ha(v, farm_size) ==
  v @@ [ total_revenue |-> RMul(v.revenue_per_ha, farm_size),
         total_cost |-> RMul(v.total_cost_per_ha, farm_size),
         net_profit |-> v.net_profit_per_ha,
         roi |-> roi(v.net_profit_per_ha, RMul(v.total_cost_per_ha, farm_size)) ]

\* Lines 207-213: the farm's totals and the ROI.
scale_to_farm(v, farm_size) ==
  v @@ [ total_revenue |-> RMul(v.revenue_per_ha, farm_size),
         total_cost |-> RMul(v.total_cost_per_ha, farm_size),
         net_profit |-> RMul(v.net_profit_per_ha, farm_size),
         roi |-> roi(RMul(v.net_profit_per_ha, farm_size),
                     RMul(v.total_cost_per_ha, farm_size)) ]

analysis_locals(crop_id, crop_info, current_n, current_p, current_k, soil_ph, farm_size) ==
  scale_to_farm(
    economics(crop_id, crop_info,
      yield_potential(crop_info, current_n, current_p, current_k,
        fertilizer_requirements(
          soil_check(crop_info, current_n, current_p, current_k, soil_ph)))),
    farm_size)

schedules ==
  [ wheat |-> <<"Pre-sowing: 50% N, 100% P, 100% K", "Tillering: 25% N",
                "Grain filling: 25% N">>,
    rice |-> <<"Transplanting: 50% N, 100% P, 100% K", "Tillering: 25% N",
               "Panicle initiation: 25% N">>,
    corn |-> <<"Planting: 30% N, 100% P, 100% K", "V6 stage: 40% N",
               "Tasseling: 30% N">>,
    cotton |-> <<"Planting: 25% N, 100% P, 50% K", "Squaring: 50% N, 50% K",
                 "Flowering: 25% N">>,
    sugarcane |-> <<"Planting: 33% N, 100% P, 50% K", "Tillering: 33% N, 50% K",
                    "Grand growth: 34% N">>,
    soybean |-> <<"Planting: 100% P, 100% K", "Flowering: 100% N",
                  "Pod filling: Monitor only">> ]

\* schedules.get(crop_id, ["Pre-planting: 100% fertilizer"])
get_application_schedule(crop_id) ==
  IF crop_id \in DOMAIN schedules THEN schedules[crop_id]
  ELSE <<"Pre-planting: 100% fertilizer">>

\* Lines 215-244: the fertilizer plan and the dictionary returned.  A
\* ZeroDivisionError raised at the roi line shows as roi = DivZero, which the
\* handler turns into the exception.
analysis_report(crop_id, crop_info, farm_size, v) ==
  [ crop_id |-> crop_id,
    crop_name |-> crop_info.name,
    suitability_score |->
      Round(RMul(RMul(v.nutrient_efficiency, v.ph_factor), Num(100)), 1),
    expected_yield |-> Round(v.expected_yield, 2),
    total_yield |-> Round(RMul(v.expected_yield, farm_size), 2),
    market_price |-> crop_info.market_price,
    total_revenue |-> Round(v.total_revenue, 2),
    total_cost |-> Round(v.total_cost, 2),
    net_profit |-> Round(v.net_profit, 2),
    roi |-> Round(v.roi, 1),
    fertilizer_plan |->
      [ urea_bags |-> Round(RDiv(RMul(v.urea_needed, farm_size), Num(50)), 1),
        dap_bags |-> Round(RDiv(RMul(v.dap_needed, farm_size), Num(50)), 1),
        mop_bags |-> Round(RDiv(RMul(v.mop_needed, farm_size), Num(50)), 1),
        total_fertilizer_cost |->
          Round(RMul(v.fertilizer_cost_per_ha, farm_size), 2),
        application_schedule |-> get_application_schedule(crop_id) ],
    growing_season_days |-> crop_info.growing_season,
    water_requirement |-> crop_info.water_requirement,
    ph_suitable |-> v.ph_suitable,
    nutrient_deficits |->
      [ nitrogen |-> Round(v.n_deficit, 1),
        phosphorus |-> Round(v.p_deficit, 1),
        potassium |-> Round(v.k_deficit, 1) ] ]

analyze_crop_profitability(crop_id, crop_info, current_n, current_p, current_k, soil_ph, farm_size) ==
  analysis_report(crop_id, crop_info, farm_size,
    analysis_locals(crop_id, crop_info, current_n, current_p, current_k,
                    soil_ph, farm_size))

----------------------------------------------------------------------------
(* generate_recommendations, the ranking and the slices. *)

\* seq[:n]
Prefix(seq, n) == SubSeq(seq, 1, IF n < Len(seq) THEN n ELSE Len(seq))

\* One f-string of generate_recommendations: its fixed text and the crop
\* name and the number it interpolates.
Message(text, crop, value) == [text |-> text, crop |-> crop, value |-> value]

\* Lines 272-273: the best crop and its ROI.
plant_recommendation(top_crops) ==
  <<Message("Plant for maximum profitability", top_crops[1].crop_name,
            top_crops[1].roi)>>

\* Faulty variant: the investment stated whatever the cost.
fertilizer_recommendation_always(top_crops) ==
  <<Message("Invest in fertilizers for optimal yield", "",
            top_crops[1].fertilizer_plan.total_fertilizer_cost)>>

\* Lines 275-276: the investment, if the best crop's fertilizer cost is > 0.
fertilizer_recommendation(top_crops) ==
  IF RSign(top_crops[1].fertilizer_plan.total_fertilizer_cost) > 0
  THEN <<Message("Invest in fertilizers for optimal yield", "",
                 top_crops[1].fertilizer_plan.total_fertilizer_cost)>>
  ELSE <<>>

\* Faulty variant: the pH advice given for any crop of the list.
ph_recommendation_any_crop(top_crops) ==
  IF \E i \in 1..Len(top_crops) : ~top_crops[i].ph_suitable
  THEN <<Message("Consider soil pH adjustment for better crop performance",
                 "", Num(0))>>
  ELSE <<>>

\* Lines 278-279: the pH advice, if the best crop's pH is not suitable.
ph_recommendation(top_crops) ==
  IF ~top_crops[1].ph_suitable
  THEN <<Message("Consider soil pH adjustment for better crop performance",
                 "", Num(0))>>
  ELSE <<>>

\* Faulty variant: the last crop of the list named as the alternative.
alternative_recommendation_last(top_crops) ==
  IF Len(top_crops) > 1
  THEN <<Message("Alternative", top_crops[Len(top_crops)].crop_name,
                 top_crops[Len(top_crops)].roi)>>
  ELSE <<>>

\* Lines 281-283: the second crop, if there is one.
alternative_recommendation(top_crops) ==
  IF Len(top_crops) > 1
  THEN <<Message("Alternative", top_crops[2].crop_name, top_crops[2].roi)>>
  ELSE <<>>

\* Lines 285-286: the two general recommendations.
general_recommendations ==
  <<Message("Monitor market prices regularly for timing your sales", "", Num(0)),
    Message("Consider crop rotation to maintain soil health", "", Num(0))>>

generate_recommendations(top_crops) ==
  (IF Len(top_crops) > 0
   THEN plant_recommendation(top_crops) \o fertilizer_recommendation(top_crops)
        \o ph_recommendation(top_crops) \o alternative_recommendation(top_crops)
   ELSE <<>>)
  \o general_recommendations

\* Faulty variant: the sort without reverse=True, ascending.
InsertByRoiAscending(sorted, x) ==
  LET ahead == Cardinality({i \in 1..Len(sorted) : RLe(sorted[i].roi, x.roi)})
  IN  SubSeq(sorted, 1, ahead) \o <<x>> \o SubSeq(sorted, ahead + 1, Len(sorted))

\* Faulty variant: an unstable sort, x going before the entries it ties with.
InsertByRoiBeforeTies(sorted, x) ==
  LET ahead == Cardinality({i \in 1..Len(sorted) : RLt(x.roi, sorted[i].roi)})
  IN  SubSeq(sorted, 1, ahead) \o <<x>> \o SubSeq(sorted, ahead + 1, Len(sorted))

\* x goes after every entry whose roi is >= its own: entries that compare
\* equal keep the order they had.
InsertByRoi(sorted, x) ==
  LET ahead == Cardinality({i \in 1..Len(sorted) : RLe(x.roi, sorted[i].roi)})
  IN  SubSeq(sorted, 1, ahead) \o <<x>> \o SubSeq(sorted, ahead + 1, Len(sorted))

RECURSIVE SortByRoiDesc(_)
\* list.sort(key=lambda x: x["roi"], reverse=True): a stable sort.
SortByRoiDesc(seq) ==
  IF seq = <<>> THEN <<>>
  ELSE InsertByRoi(SortByRoiDesc(SubSeq(seq, 1, Len(seq) - 1)), seq[Len(seq)])

----------------------------------------------------------------------------
(* predict_profitable_crops. *)

required_fields == <<"nitrogen", "phosphorus", "potassium", "ph", "farm_size">>

\* The authenticated user get_current_user yields.
current_user == [id |-> "user-1"]

TOP_CROPS == 5

STORED_CROPS == 3

HTTP_200_OK == 200

HTTP_400_BAD_REQUEST == 400

HTTP_500_INTERNAL_SERVER_ERROR == 500

\* The first required field that soil_data lacks, 0 when it has them all.
FirstMissing(data) ==
  LET lacking == {i \in 1..Len(required_fields) : required_fields[i] \notin DOMAIN data}
  IN  IF lacking = {} THEN 0
      ELSE CHOOSE i \in lacking : \A j \in lacking : i <= j

\* The first field float() raises ValueError on, 0 when all convert.
FirstUnconvertible(data) ==
  LET bad == {i \in 1..Len(required_fields) : ~IsNum(data[required_fields[i]])}
  IN  IF bad = {} THEN 0
      ELSE CHOOSE i \in bad : \A j \in bad : i <= j

\* The loop over CROP_DATA.items(): one analysis per crop, in catalog order,
\* of the entry the catalog has when the handler runs.
AnalyzeEach(data) ==
  [i \in 1..Len(CROP_ORDER) |->
     analyze_crop_profitability(CROP_ORDER[i], crop_data[CROP_ORDER[i]],
        data.nitrogen, data.phosphorus, data.potassium, data.ph, data.farm_size)]

\* The record inserted into the predictions table; created_at is the
\* insert's ordinal, standing for datetime.now().
prediction_record(data, ranked, now) ==
  [ user_id |-> current_user.id,
    prediction_type |-> "profitable_crops",
    crop_type |-> "multiple",
    input_data |-> data,
    predictions |-> Prefix(ranked, STORED_CROPS),
    confidence |-> Rat(85, 100),
    recommendations |-> generate_recommendations(Prefix(ranked, STORED_CROPS)),
    created_at |-> now ]

\* Faulty variant: top_crops cut like the stored record, to three entries.
success_body_top_three(data, ranked) ==
  [ status |-> "success",
    soil_analysis |-> [f \in DOMAIN data |-> data[f]],
    top_crops |-> Prefix(ranked, 3),
    summary |-> [ best_crop |-> ranked[1].crop_name,
                  max_roi |-> ranked[1].roi,
                  total_investment_needed |-> ranked[1].total_cost,
                  expected_profit |-> ranked[1].net_profit ],
    recommendations |-> generate_recommendations(Prefix(ranked, 3)) ]

\* Faulty variant: the summary taken from the last entry of the ranked list.
success_body_summary_of_last(data, ranked) ==
  [ status |-> "success",
    soil_analysis |-> [f \in DOMAIN data |-> data[f]],
    top_crops |-> Prefix(ranked, TOP_CROPS),
    summary |-> [ best_crop |-> ranked[Len(ranked)].crop_name,
                  max_roi |-> ranked[Len(ranked)].roi,
                  total_investment_needed |-> ranked[Len(ranked)].total_cost,
                  expected_profit |-> ranked[Len(ranked)].net_profit ],
    recommendations |-> generate_recommendations(Prefix(ranked, STORED_CROPS)) ]

\* The dictionary the handler returns.
success_body(data, ranked) ==
  [ status |-> "success",
    soil_analysis |-> [f \in DOMAIN data |-> data[f]],
    top_crops |-> Prefix(ranked, TOP_CROPS),
    summary |-> [ best_crop |-> ranked[1].crop_name,
                  max_roi |-> ranked[1].roi,
                  total_investment_needed |-> ranked[1].total_cost,
                  expected_profit |-> ranked[1].net_profit ],
    recommendations |-> generate_recommendations(Prefix(ranked, STORED_CROPS)) ]

Outcome(raised, field, ranked, record, body) ==
  [raised |-> raised, field |-> field, ranked |-> ranked, record |-> record,
   body |-> body]

\* Lines 120-151: the insert into the predictions table, which succeeds or
\* raises (insert_ok), then the value returned.
StoreAndReturn(data, insert_ok, now, ranked) ==
  IF ~insert_ok
  THEN Outcome("APIError", "", ranked, <<>>, <<>>)
  ELSE Outcome("", "", ranked, <<prediction_record(data, ranked, now)>>,
               <<success_body(data, ranked)>>)

\* Lines 108-118: the analyses, then the ranking.
RankAndStore(data, insert_ok, now, each) ==
  IF \E i \in 1..Len(each) : ~IsNum(each[i].roi)
  THEN Outcome("ZeroDivisionError", "", <<>>, <<>>, <<>>)
  ELSE StoreAndReturn(data, insert_ok, now, SortByRoiDesc(each))

\* A value float() raises TypeError on, such as null or a list.
NullValue == <<2, 0>>

\* Lines 101-105: what float() raises on a value it does not convert:
\* ValueError on a string that is no number, TypeError on a null, a list or
\* an object.
float_raises(value) == IF value = NullValue THEN "TypeError" ELSE "ValueError"

\* The body of the try block: what it raises ("" when it returns), the
\* ranked list it got to, the record it inserted and the value it returns.
\* Lines 92-106: a missing field raises HTTPException(400, "Missing required
\* field"), a value float() cannot convert raises ValueError or TypeError.
TryBody(data, insert_ok, now) ==
  IF FirstMissing(data) # 0
    THEN Outcome("HTTPException", required_fields[FirstMissing(data)],
                 <<>>, <<>>, <<>>)
  ELSE IF FirstUnconvertible(data) # 0
    THEN Outcome(float_raises(data[required_fields[FirstUnconvertible(data)]]),
                 required_fields[FirstUnconvertible(data)],
                 <<>>, <<>>, <<>>)
  ELSE RankAndStore(data, insert_ok, now, AnalyzeEach(data))

ErrorResponse(code, detail, field) ==
  [status_code |-> code, detail |-> detail, field |-> field, body |-> <<>>]

\* The except clauses: ValueError becomes a 400; every other exception,
\* the HTTPException of the try block among them, becomes a 500.
ExceptClause(raised, field) ==
  IF raised = "ValueError"
  THEN ErrorResponse(HTTP_400_BAD_REQUEST, "Invalid input data", field)
  ELSE ErrorResponse(HTTP_500_INTERNAL_SERVER_ERROR,
                     "Failed to generate crop profitability analysis", "")

Respond(out) ==
  [ ranked |-> out.ranked,
    record |-> out.record,
    response |->
      IF out.raised = ""
      THEN [status_code |-> HTTP_200_OK, detail |-> "", field |-> "",
            body |-> out.body]
      ELSE ExceptClause(out.raised, out.field) ]

predict_profitable_crops(data, insert_ok, now) ==
  Respond(TryBody(data, insert_ok, now))

----------------------------------------------------------------------------
(* The requests the model sends. *)

Sample(n, p, k, ph, farm) ==
  [nitrogen |-> n, phosphorus |-> p, potassium |-> k, ph |-> ph, farm_size |-> farm]

\* soil_data without one field.
Without(data, field) == [f \in DOMAIN data \ {field} |-> data[f]]

\* A value float() raises ValueError on, such as "abc".
NotANumber == <<1, 0>>

NitrogenValues == {Num(0), Num(200)}

PhosphorusValues == {Num(0), Num(80)}

PotassiumValues == {Num(0), Num(160)}

\* The pH limits of the catalog, a pH inside every range and one outside.
PhValues ==
  {Rat(55, 10), Rat(58, 10), Num(6), Rat(65, 10), Num(7), Rat(75, 10), Num(8),
   Num(9)}

\* A grid of samples on one hectare at pH 6.5, one sample at each pH value,
\* a sample just short of wheat's nitrogen, farms of other sizes, the ends of
\* the pH scale, a small plot short of 0.03 kg of potassium for its best crop,
\* and an acid soil whose best crop is outside its pH range.
ValidSamples ==
  {Sample(n, p, k, Rat(65, 10), Num(1)) :
     n \in NitrogenValues, p \in PhosphorusValues, k \in PotassiumValues}
  \cup {Sample(Num(110), Num(80), Num(160), ph, Num(1)) : ph \in PhValues}
  \cup {Sample(Rat(11997, 100), Num(80), Num(0), Rat(65, 10), Num(1)),
        Sample(Num(110), Num(80), Num(160), Rat(65, 10), Num(2)),
        Sample(Num(200), Num(80), Num(160), Rat(65, 10), Rat(1, 2)),
        Sample(Num(150), Num(70), Num(60), Rat(65, 10), Num(10)),
        Sample(Num(90), Num(45), Num(30), Num(14), Num(1)),
        Sample(Num(90), Num(45), Num(30), Num(0), Num(1)),
        Sample(Num(200), Num(80), Rat(7997, 100), Rat(65, 10), Rat(1, 10)),
        Sample(Num(60), Num(80), Num(100), Rat(55, 10), Num(1))}

BaseSample == Sample(Num(110), Num(80), Num(160), Rat(65, 10), Num(2))

\* Out-of-domain numbers the handler is given all the same.
OutOfDomainSamples ==
  {[BaseSample EXCEPT !.farm_size = f] : f \in {Num(0), Num(-1), Num(-2)}}
  \cup {[BaseSample EXCEPT !.nitrogen = Num(-50)],
        [BaseSample EXCEPT !.phosphorus = Num(-10)],
        [BaseSample EXCEPT !.potassium = Num(-10)],
        Sample(Num(-50), Num(0), Num(0), Rat(65, 10), Num(1)),
        Sample(Num(0), Num(0), Num(0), Rat(65, 10), Num(0))}

IncompleteRequests ==
  {Without(BaseSample, required_fields[i]) : i \in 1..Len(required_fields)}
  \cup {Without(Without(BaseSample, "ph"), "farm_size"),
        Without([BaseSample EXCEPT !.nitrogen = NotANumber], "potassium")}

UnconvertibleRequests ==
  {[BaseSample EXCEPT ![required_fields[i]] = NotANumber] :
     i \in 1..Len(required_fields)}
  \cup {[BaseSample EXCEPT !.ph = NotANumber, !.farm_size = NotANumber],
        [BaseSample EXCEPT !.nitrogen = NullValue],
        [BaseSample EXCEPT !.ph = NullValue, !.farm_size = NotANumber]}

Requests ==
  ValidSamples \cup OutOfDomainSamples \cup IncompleteRequests
  \cup UnconvertibleRequests

----------------------------------------------------------------------------
(* The demo authentication API, src/app/apis/auth_simple.py.  Timestamps   *)
(* (created_at, the token's exp) are left out; jwt.encode is taken to      *)
(* succeed, SECRET_KEY being set in the environment.                       *)

HTTP_401_UNAUTHORIZED == 401

\* hashlib.sha256(password.encode()).hexdigest(), on the passwords used here.
hash_password(password) ==
  CASE password = "password" ->
         "5e884898da28047151d0e56f8dc6292773603d0d6aabbdd62a11ef721d1542d8"
    [] password = "demo123" ->
         "d3ad9315b7be5dd53b31a273b3b3aba5defe700808305aa16a3062b76658a791"
    [] password = "secret" ->
         "2bb80d537b1da3e38bd30361aa855686bde0eacd7162fef6a25fe97bf527a25b"
    [] password = "password123" ->
         "ef92b778bafe771e89245b89ecbc08a44a4e166c06659911881f383d4473e94f"

verify_password(plain_password, hashed_password) ==
  hash_password(plain_password) = hashed_password

\* MOCK_USERS as the module defines it.
InitialMockUsers ==
  [ email \in {"farmer@agrismart.com", "demo@agrismart.com"} |->
      IF email = "farmer@agrismart.com"
      THEN [ id |-> "1", email |-> "farmer@agrismart.com",
             full_name |-> "Farm Manager",
             password_hash |->
               "5e884898da28047151d0e56f8dc6292773603d0d6aabbdd62a11ef721d1542d8" ]
      ELSE [ id |-> "2", email |-> "demo@agrismart.com",
             full_name |-> "Demo User",
             password_hash |->
               "ef92b778bafe771e89245b89ecbc08a44a4e166c06659911881f383d4473e94f" ] ]

\* str(n) for the ids used here.
str(n) == CASE n = 1 -> "1" [] n = 2 -> "2" [] n = 3 -> "3" [] n = 4 -> "4"

AuthError(code, detail) == [status_code |-> code, detail |-> detail, body |-> <<>>]

\* jwt.encode of the claims sub and user_id.
create_access_token(data) == [sub |-> data.sub, user_id |-> data.user_id]

\* The dictionary register_user returns (lines 173-182 and 220-229) and the
\* TokenResponse of login (lines 123-130).
TokenBody(user, message) ==
  [ access_token |-> create_access_token([sub |-> user.email, user_id |-> user.id]),
    token_type |-> "bearer",
    user |-> [id |-> user.id, email |-> user.email, full_name |-> user.full_name],
    message |-> message ]

AuthSuccess(user, message) ==
  [status_code |-> HTTP_200_OK, detail |-> "", body |-> <<TokenBody(user, message)>>]

\* Lines 95-130: login looks the email up in MOCK_USERS only.
login(mock, user_credentials) ==
  IF user_credentials.email \notin DOMAIN mock
  THEN AuthError(HTTP_401_UNAUTHORIZED, "Invalid email or password")
  ELSE IF ~verify_password(user_credentials.password,
                           mock[user_credentials.email].password_hash)
  THEN AuthError(HTTP_401_UNAUTHORIZED, "Invalid email or password")
  ELSE AuthSuccess(mock[user_credentials.email], "")

\* Lines 138-186, the Supabase attempt: the select, which returns rows or
\* raises; the HTTPException(400, "User already exists") of lines 141-145;
\* the insert, which returns the row ("data"), returns no data ("empty") or
\* raises ("raises").  Every exception raised inside the inner try, the
\* HTTPException included, is caught at line 184 and the function goes on
\* to the mock database: returned is then empty.
supabase_register(table, user_data, select_ok, insert) ==
  IF ~select_ok THEN [users |-> table, returned |-> <<>>]
  ELSE IF \E i \in 1..Len(table) : table[i].email = user_data.email
    THEN [users |-> table, returned |-> <<>>]
  ELSE IF insert # "data" THEN [users |-> table, returned |-> <<>>]
  ELSE LET user_record == [ id |-> str(Len(table) + 1),
                            email |-> user_data.email,
                            full_name |-> user_data.full_name,
                            password_hash |-> hash_password(user_data.password) ]
       IN  [ users |-> Append(table, user_record),
             returned |->
               <<AuthSuccess(user_record, "User registered successfully in Supabase")>> ]

\* Lines 188-229, the mock database.
mock_register(mock, user_data) ==
  IF user_data.email \in DOMAIN mock
  THEN [ MOCK_USERS |-> mock,
         response |-> AuthError(HTTP_400_BAD_REQUEST, "User already exists") ]
  ELSE LET new_user == [ id |-> str(Cardinality(DOMAIN mock) + 1),
                         email |-> user_data.email,
                         full_name |-> user_data.full_name,
                         password_hash |-> hash_password(user_data.password) ]
       IN  [ MOCK_USERS |-> (user_data.email :> new_user) @@ mock,
             response |->
               AuthSuccess(new_user, "User registered successfully (mock database)") ]

\* What the Supabase attempt left to do: its return value, or the mock
\* database.
after_supabase(attempt, mock, user_data) ==
  IF attempt.returned # <<>>
  THEN [users |-> attempt.users, MOCK_USERS |-> mock, response |-> attempt.returned[1]]
  ELSE [users |-> attempt.users] @@ mock_register(mock, user_data)

\* Lines 132-237: register_user.
register_user(client, table, mock, user_data, select_ok, insert) ==
  IF client = "client"
  THEN after_supabase(supabase_register(table, user_data, select_ok, insert),
                      mock, user_data)
  ELSE [users |-> table] @@ mock_register(mock, user_data)

NoAuthRequest == [op |-> "", email |-> "", password |-> ""]

NoAuthResponse == [status_code |-> 0, detail |-> "", body |-> <<>>]

----------------------------------------------------------------------------
(* The server: one request at a time is received and handled.  crop_data  *)
(* and fertilizer_prices are the module's dictionaries CROP_DATA and       *)
(* FERTILIZER_PRICES as they stand at run time.                            *)

MaxRecords == 1

NoData == [f \in {} |-> Num(0)]

NoResponse == [status_code |-> 0, detail |-> "", field |-> "", body |-> <<>>]

\* The handler's calls in progress, used when calls overlap.
CallIds == {"call-1", "call-2"}

NoCall ==
  [pc |-> "idle", soil_data |-> NoData, crop_analyses |-> <<>>,
   insert_ok |-> TRUE, response |-> NoResponse]

Init ==
  /\ calls = [c \in CallIds |-> NoCall]
  /\ pc = "idle"
  /\ soil_data = NoData
  /\ crop_analyses = <<>>
  /\ response = NoResponse
  /\ predictions = <<>>
  /\ crop_data = CROP_DATA
  /\ fertilizer_prices = FERTILIZER_PRICES
  /\ supabase = "unloaded"
  /\ users = <<>>
  /\ MOCK_USERS = InitialMockUsers
  /\ auth_request = NoAuthRequest
  /\ auth_response = NoAuthResponse

\* A POST /predict arrives with the body data.
Receive(data) ==
  /\ pc = "idle"
  /\ Len(predictions) < MaxRecords
  /\ pc' = "handling"
  /\ soil_data' = data
  /\ crop_analyses' = <<>>
  /\ response' = NoResponse
  /\ UNCHANGED <<predictions, crop_data, fertilizer_prices, calls, auth_vars>>

\* Faulty variant: the yield computed for the best crop written back into
\* its catalog entry.
FinishUpdatingCatalog(r) ==
  /\ crop_analyses' = r.ranked
  /\ response' = r.response
  /\ predictions' = predictions \o r.record
  /\ pc' = "idle"
  /\ crop_data' =
       IF r.ranked = <<>> THEN crop_data
       ELSE [crop_data EXCEPT ![r.ranked[1].crop_id].base_yield =
                                r.ranked[1].expected_yield]
  /\ UNCHANGED <<soil_data, fertilizer_prices, calls, auth_vars>>

\* The handler's effects: its ranked list, the record it inserted into the
\* predictions table and its response.  It assigns to no module-level name
\* and to no item of CROP_DATA or FERTILIZER_PRICES, which it only reads.
Finish(r) ==
  /\ crop_analyses' = r.ranked
  /\ response' = r.response
  /\ predictions' = predictions \o r.record
  /\ pc' = "idle"
  /\ UNCHANGED <<soil_data, crop_data, fertilizer_prices, calls, auth_vars>>

\* predict_profitable_crops runs to its response; the insert into the
\* predictions table, a call to an external service, succeeds or raises.
Handle(insert_ok) ==
  /\ pc = "handling"
  /\ Finish(predict_profitable_crops(soil_data, insert_ok, Len(predictions) + 1))

Next ==
  \/ \E data \in Requests : Receive(data)
  \/ Handle(TRUE)
  \/ Handle(FALSE)

Spec == Init /\ [][Next]_vars

----------------------------------------------------------------------------
(* Overlapping calls.  Each call of predict_profitable_crops has its own   *)
(* soil_data, crop_analyses and response; the calls share the predictions  *)
(* table and the module's dictionaries.  A call advances statement by      *)
(* statement, and the statements of different calls interleave freely,     *)
(* which covers the coroutines of one event loop (the handler has no await *)
(* and runs there without interruption) and worker threads or processes.   *)

\* The requests of the overlapping calls.
ConcurrentRequests ==
  {BaseSample,
   Sample(Num(0), Num(0), Num(0), Rat(65, 10), Num(1)),
   Without(BaseSample, "ph"),
   [BaseSample EXCEPT !.potassium = NotANumber]}

\* The call goes to the statement at, with the locals given.
Goto(c, at, analyses, resp) ==
  calls' = [calls EXCEPT ![c].pc = at, ![c].crop_analyses = analyses,
                         ![c].response = resp]

\* A POST /predict arrives and a call of the handler starts.
Call(c, data) ==
  /\ calls[c].pc = "idle"
  /\ calls' = [calls EXCEPT ![c].pc = "validate", ![c].soil_data = data]
  /\ UNCHANGED <<pc, soil_data, crop_analyses, response, predictions,
                 crop_data, fertilizer_prices, auth_vars>>

\* Lines 92-106: the required fields and the conversions by float().
ValidateInput(c) ==
  /\ calls[c].pc = "validate"
  /\ IF FirstMissing(calls[c].soil_data) # 0
       THEN Goto(c, "done", <<>>, ExceptClause("HTTPException", ""))
     ELSE IF FirstUnconvertible(calls[c].soil_data) # 0
       THEN Goto(c, "done", <<>>,
                 ExceptClause(
                   float_raises(calls[c].soil_data[
                     required_fields[FirstUnconvertible(calls[c].soil_data)]]),
                   required_fields[FirstUnconvertible(calls[c].soil_data)]))
     ELSE Goto(c, "analyze", <<>>, NoResponse)
  /\ UNCHANGED <<pc, soil_data, crop_analyses, response, predictions,
                 crop_data, fertilizer_prices, auth_vars>>

\* The analysis of the crop the loop of lines 111-115 is at.
NextAnalysis(c) ==
  analyze_crop_profitability(
    CROP_ORDER[Len(calls[c].crop_analyses) + 1],
    crop_data[CROP_ORDER[Len(calls[c].crop_analyses) + 1]],
    calls[c].soil_data.nitrogen, calls[c].soil_data.phosphorus,
    calls[c].soil_data.potassium, calls[c].soil_data.ph,
    calls[c].soil_data.farm_size)

\* Faulty variant: crop_analyses a list shared by the calls, every call that
\* is in its loop getting the analysis appended.
AnalyzeCropShared(c) ==
  /\ calls[c].pc = "analyze"
  /\ Len(calls[c].crop_analyses) < Len(CROP_ORDER)
  /\ calls' = [d \in CallIds |->
                 IF calls[d].pc = "analyze"
                 THEN [calls[d] EXCEPT !.crop_analyses = Append(@, NextAnalysis(c))]
                 ELSE calls[d]]
  /\ UNCHANGED <<pc, soil_data, crop_analyses, response, predictions,
                 crop_data, fertilizer_prices, auth_vars>>

\* Lines 111-115: one iteration of the loop over CROP_DATA.items().
AnalyzeCrop(c) ==
  /\ calls[c].pc = "analyze"
  /\ Len(calls[c].crop_analyses) < Len(CROP_ORDER)
  /\ IF IsNum(NextAnalysis(c).roi)
     THEN Goto(c, "analyze", Append(calls[c].crop_analyses, NextAnalysis(c)),
               NoResponse)
     ELSE Goto(c, "done", <<>>, ExceptClause("ZeroDivisionError", ""))
  /\ UNCHANGED <<pc, soil_data, crop_analyses, response, predictions,
                 crop_data, fertilizer_prices, auth_vars>>

\* Line 118: the sort, once the loop has ended.
SortAnalyses(c) ==
  /\ calls[c].pc = "analyze"
  /\ Len(calls[c].crop_analyses) >= Len(CROP_ORDER)
  /\ Goto(c, "insert", SortByRoiDesc(calls[c].crop_analyses), NoResponse)
  /\ UNCHANGED <<pc, soil_data, crop_analyses, response, predictions,
                 crop_data, fertilizer_prices, auth_vars>>

\* Faulty variant: the insert handed over to be done later, the call going
\* on to its return without the record in the table.
InsertRecordDetached(c, insert_ok) ==
  /\ calls[c].pc = "insert"
  /\ IF insert_ok
     THEN Goto(c, "return", calls[c].crop_analyses, NoResponse)
     ELSE calls' = [calls EXCEPT ![c].pc = "done", ![c].insert_ok = FALSE,
                                 ![c].response = ExceptClause("APIError", "")]
  /\ UNCHANGED <<pc, soil_data, crop_analyses, response, predictions,
                 crop_data, fertilizer_prices, auth_vars>>

\* Lines 120-132: the record and its insert, which succeeds or raises.
InsertRecord(c, insert_ok) ==
  /\ calls[c].pc = "insert"
  /\ IF insert_ok
     THEN /\ predictions' =
               Append(predictions,
                      prediction_record(calls[c].soil_data, calls[c].crop_analyses,
                                        Len(predictions) + 1))
          /\ Goto(c, "return", calls[c].crop_analyses, NoResponse)
     ELSE /\ UNCHANGED predictions
          /\ calls' = [calls EXCEPT ![c].pc = "done", ![c].insert_ok = FALSE,
                                    ![c].response = ExceptClause("APIError", "")]
  /\ UNCHANGED <<pc, soil_data, crop_analyses, response, crop_data,
                 fertilizer_prices, auth_vars>>

\* Lines 134-151: the dictionary returned.
ReturnSuccess(c) ==
  /\ calls[c].pc = "return"
  /\ Goto(c, "done", calls[c].crop_analyses,
          [status_code |-> HTTP_200_OK, detail |-> "", field |-> "",
           body |-> <<success_body(calls[c].soil_data, calls[c].crop_analyses)>>])
  /\ UNCHANGED <<pc, soil_data, crop_analyses, response, predictions,
                 crop_data, fertilizer_prices, auth_vars>>

ConcurrentNext ==
  \E c \in CallIds :
    \/ \E data \in ConcurrentRequests : Call(c, data)
    \/ ValidateInput(c)
    \/ AnalyzeCrop(c)
    \/ SortAnalyses(c)
    \/ InsertRecord(c, TRUE)
    \/ InsertRecord(c, FALSE)
    \/ ReturnSuccess(c)

ConcurrentSpec == Init /\ [][ConcurrentNext]_vars

----------------------------------------------------------------------------
(* Vocabulary of the properties. *)

\* The handler has answered the request in soil_data.
Handled == pc = "idle" /\ response.status_code # 0

Succeeded == Handled /\ response.status_code = HTTP_200_OK

\* soil_data has the five required fields, each a number.
Numeric(data) ==
  /\ \A i \in 1..Len(required_fields) : required_fields[i] \in DOMAIN data
  /\ \A i \in 1..Len(required_fields) : IsNum(data[required_fields[i]])

\* A valid soil sample: nutrients >= 0, 0 <= ph <= 14, farm_size > 0.
ValidSample(data) ==
  /\ Numeric(data)
  /\ RSign(data.nitrogen) >= 0
  /\ RSign(data.phosphorus) >= 0
  /\ RSign(data.potassium) >= 0
  /\ RLe(Num(0), data.ph) /\ RLe(data.ph, Num(14))
  /\ RSign(data.farm_size) > 0

CatalogIndex(crop_id) == CHOOSE i \in 1..Len(CROP_ORDER) : CROP_ORDER[i] = crop_id

InPhRange(crop_id, ph) ==
  /\ RLe(CROP_DATA[crop_id].nutrient_requirements.pH_min, ph)
  /\ RLe(ph, CROP_DATA[crop_id].nutrient_requirements.pH_max)

\* |a - b| <= eps
Within(a, b, eps) == RLe(RSub(a, b), eps) /\ RLe(RSub(b, a), eps)

\* x is a multiple of 10^-k (k = 1, 2).
Decimals(x, k) == Pow10(k) % x[2] = 0

\* The locals of analyze_crop_profitability for a crop and the request, with
\* the pH given.
LocalsAt(crop_id, data, ph) ==
  analysis_locals(crop_id, CROP_DATA[crop_id], data.nitrogen, data.phosphorus,
                  data.potassium, ph, data.farm_size)

ReportAt(crop_id, data, ph) ==
  analyze_crop_profitability(crop_id, CROP_DATA[crop_id], data.nitrogen,
                             data.phosphorus, data.potassium, ph, data.farm_size)

----------------------------------------------------------------------------
(* The properties. *)

\* C1: for every valid soil sample the analysis holds exactly one entry per
\* catalog crop, and the entries are ordered by roi, non-increasing.
C1_OnePerCropRankedByRoi ==
  (Handled /\ ValidSample(soil_data)) =>
    /\ Len(crop_analyses) = Len(CROP_ORDER)
    /\ \A c \in CropIds :
         Cardinality({i \in 1..Len(crop_analyses) : crop_analyses[i].crop_id = c}) = 1
    /\ \A i \in 1..(Len(crop_analyses) - 1) :
         RLe(crop_analyses[i + 1].roi, crop_analyses[i].roi)

\* A valid sample whose ranking differs from the catalog order and whose
\* roi values differ.
C1_Witness ==
  /\ Succeeded /\ ValidSample(soil_data)
  /\ crop_analyses[1].crop_id # CROP_ORDER[1]
  /\ RLt(crop_analyses[Len(crop_analyses)].roi, crop_analyses[1].roi)

\* C2 as stated: every catalog crop is among the returned top_crops, which
\* has as many entries as the catalog.
C2_AllCropsReturned ==
  Succeeded =>
    /\ Len(response.body[1].top_crops) = Len(CROP_ORDER)
    /\ \A c \in CropIds :
         \E i \in 1..Len(response.body[1].top_crops) :
           response.body[1].top_crops[i].crop_id = c

\* C2 amended: every catalog crop is ranked, and top_crops is the first
\* five entries of the ranking, so that the crop ranked last of the six is
\* not returned.
C2_TopCropsIsFirstFive ==
  Succeeded =>
    /\ Len(crop_analyses) = Len(CROP_ORDER)
    /\ Len(response.body[1].top_crops) = TOP_CROPS
    /\ \A i \in 1..TOP_CROPS : response.body[1].top_crops[i] = crop_analyses[i]
    /\ \A i \in 1..TOP_CROPS :
         response.body[1].top_crops[i].crop_id
           # crop_analyses[Len(crop_analyses)].crop_id

\* A success whose last-ranked crop has a roi strictly below the fifth's.
C2_Witness ==
  /\ Succeeded /\ ValidSample(soil_data)
  /\ RLt(crop_analyses[Len(CROP_ORDER)].roi, crop_analyses[TOP_CROPS].roi)

\* C3: a request that lacks a required field is answered 400 "Missing
\* required field", never 500 and never a success.
C3_MissingFieldIsClientError ==
  (Handled /\ \E i \in 1..Len(required_fields) :
                required_fields[i] \notin DOMAIN soil_data) =>
    /\ response.status_code = HTTP_400_BAD_REQUEST
    /\ response.detail = "Missing required field"

\* C4: a request whose farm_size is <= 0 is answered with an invalid-input
\* error, and no ranking is computed from it.
C4_NonPositiveFarmSizeRejected ==
  (Handled /\ Numeric(soil_data) /\ RSign(soil_data.farm_size) <= 0) =>
    /\ response.status_code = HTTP_400_BAD_REQUEST
    /\ crop_analyses = <<>>

\* C5: a request with a negative nitrogen, phosphorus or potassium value is
\* answered with an invalid-input error, and no analysis is computed from it.
C5_NegativeNutrientRejected ==
  (Handled /\ Numeric(soil_data)
     /\ (\/ RSign(soil_data.nitrogen) < 0
         \/ RSign(soil_data.phosphorus) < 0
         \/ RSign(soil_data.potassium) < 0)) =>
    /\ response.status_code = HTTP_400_BAD_REQUEST
    /\ crop_analyses = <<>>

\* C6: two crops with the same roi are ranked in catalog insertion order.
C6_TiesInCatalogOrder ==
  Handled =>
    \A i, j \in 1..Len(crop_analyses) :
      (i < j /\ crop_analyses[i].roi = crop_analyses[j].roi) =>
        CatalogIndex(crop_analyses[i].crop_id) < CatalogIndex(crop_analyses[j].crop_id)

\* A valid sample two of whose crops tie on roi.
C6_Witness ==
  /\ Succeeded /\ ValidSample(soil_data)
  /\ \E i, j \in 1..Len(crop_analyses) :
       i < j /\ crop_analyses[i].roi = crop_analyses[j].roi

\* C7: for every input the analysis accepts, every crop's suitability_score
\* is between 0 and 100.
C7_SuitabilityScoreInRange ==
  Handled =>
    \A i \in 1..Len(crop_analyses) :
      /\ RLe(Num(0), crop_analyses[i].suitability_score)
      /\ RLe(crop_analyses[i].suitability_score, Num(100))

\* max(0, requirement - current), written out.
ExactDeficit(requirement, current) ==
  IF RLt(current, requirement) THEN RSub(requirement, current) ELSE Num(0)

\* The reported deficit is the exact one: never negative, and 0 exactly when
\* the sample meets the requirement.
DeficitExact(reported, requirement, current) ==
  /\ reported = ExactDeficit(requirement, current)
  /\ RSign(reported) >= 0
  /\ (RSign(reported) = 0) <=> RLe(requirement, current)

\* The reported deficit is the exact one rounded to one decimal.
DeficitRounded(reported, requirement, current) ==
  /\ Decimals(reported, 1)
  /\ Within(reported, ExactDeficit(requirement, current), Rat(1, 20))
  /\ RSign(reported) >= 0
  /\ RLe(requirement, current) => RSign(reported) = 0
  /\ (RSign(reported) = 0) => RLe(RSub(requirement, current), Rat(1, 20))

\* C8 as stated: every reported nutrient deficit equals
\* max(0, requirement - sample), is never negative and is 0 exactly when the
\* sample meets the requirement.
C8_ReportedDeficitExact ==
  Handled =>
    \A i \in 1..Len(crop_analyses) :
      LET a   == crop_analyses[i]
          req == CROP_DATA[a.crop_id].nutrient_requirements
      IN  /\ DeficitExact(a.nutrient_deficits.nitrogen, req.N, soil_data.nitrogen)
          /\ DeficitExact(a.nutrient_deficits.phosphorus, req.P, soil_data.phosphorus)
          /\ DeficitExact(a.nutrient_deficits.potassium, req.K, soil_data.potassium)

\* C8 amended: every reported nutrient deficit is max(0, requirement - sample)
\* rounded to one decimal: never negative, within 0.05 of the exact deficit,
\* 0 whenever the sample meets the requirement, and 0 otherwise only for a
\* shortfall of at most 0.05.
C8_ReportedDeficitRounded ==
  Handled =>
    \A i \in 1..Len(crop_analyses) :
      LET a   == crop_analyses[i]
          req == CROP_DATA[a.crop_id].nutrient_requirements
      IN  /\ DeficitRounded(a.nutrient_deficits.nitrogen, req.N, soil_data.nitrogen)
          /\ DeficitRounded(a.nutrient_deficits.phosphorus, req.P, soil_data.phosphorus)
          /\ DeficitRounded(a.nutrient_deficits.potassium, req.K, soil_data.potassium)

\* A crop with a positive deficit, a zero deficit from a surplus, and a
\* shortfall that is reported as 0.
C8_Witness ==
  /\ Succeeded
  /\ \E i \in 1..Len(crop_analyses) :
       LET a   == crop_analyses[i]
           req == CROP_DATA[a.crop_id].nutrient_requirements
       IN  /\ RLt(soil_data.nitrogen, req.N)
           /\ RSign(a.nutrient_deficits.nitrogen) = 0
           /\ RLt(req.P, soil_data.phosphorus)
           /\ RSign(a.nutrient_deficits.phosphorus) = 0
           /\ RSign(a.nutrient_deficits.potassium) > 0

\* C9 as stated: ph_suitable is true exactly when pH_min <= ph <= pH_max; out
\* of the range the reported expected_yield is exactly 0.7 times the one
\* reported for the same nutrients with a pH in the range; ph = 9.0 makes
\* every crop unsuitable.
C9_ReportedYieldScaledExactly ==
  Handled =>
    \A i \in 1..Len(crop_analyses) :
      LET a == crop_analyses[i]
          c == a.crop_id
      IN  /\ a.ph_suitable <=> InPhRange(c, soil_data.ph)
          /\ soil_data.ph = Num(9) => ~a.ph_suitable
          /\ ~InPhRange(c, soil_data.ph) =>
               a.expected_yield =
                 RMul(Rat(7, 10),
                      ReportAt(c, soil_data,
                               CROP_DATA[c].nutrient_requirements.pH_min).expected_yield)

\* C9 amended: ph_suitable is true exactly when pH_min <= ph <= pH_max; out
\* of the range the expected_yield before rounding is exactly 0.7 times the
\* one computed for the same nutrients with a pH in the range, and the
\* reported value is that product rounded to two decimals; ph = 9.0 makes
\* every crop unsuitable.
C9_YieldScaledBeforeRounding ==
  Handled =>
    \A i \in 1..Len(crop_analyses) :
      LET a == crop_analyses[i]
          c == a.crop_id
      IN  /\ a.ph_suitable <=> InPhRange(c, soil_data.ph)
          /\ soil_data.ph = Num(9) => ~a.ph_suitable
          /\ \A ph \in {CROP_DATA[c].nutrient_requirements.pH_min,
                        CROP_DATA[c].nutrient_requirements.pH_max} :
               ~InPhRange(c, soil_data.ph) =>
                 /\ LocalsAt(c, soil_data, soil_data.ph).expected_yield =
                      RMul(Rat(7, 10), LocalsAt(c, soil_data, ph).expected_yield)
                 /\ Decimals(a.expected_yield, 2)
                 /\ Within(a.expected_yield,
                           RMul(Rat(7, 10), LocalsAt(c, soil_data, ph).expected_yield),
                           Rat(1, 200))

\* pH 9.0: every crop is out of its range, with a positive expected yield.
C9_Witness ==
  /\ Succeeded /\ ValidSample(soil_data)
  /\ soil_data.ph = Num(9)
  /\ \A i \in 1..Len(crop_analyses) :
       /\ ~crop_analyses[i].ph_suitable
       /\ RSign(crop_analyses[i].expected_yield) > 0

\* C10: roi = net_profit / total_cost * 100 when total_cost > 0 and 0
\* otherwise (reported to one decimal); it may be negative; no request whose
\* fields are numbers raises a division error, so each gets its ranking.
C10_RoiDefinedWithoutDivisionError ==
  (Handled /\ Numeric(soil_data)) =>
    /\ Len(crop_analyses) = Len(CROP_ORDER)
    /\ \A i \in 1..Len(crop_analyses) :
         LET a == crop_analyses[i]
             v == LocalsAt(a.crop_id, soil_data, soil_data.ph)
         IN  /\ IsNum(a.roi)
             /\ RSign(v.total_cost) > 0 =>
                  RMul(v.roi, v.total_cost) = RMul(v.net_profit, Num(100))
             /\ RSign(v.total_cost) <= 0 => v.roi = Num(0)
             /\ Decimals(a.roi, 1)
             /\ Within(a.roi, v.roi, Rat(1, 20))

\* total_cost = 0 for every crop (farm_size = 0): a success with roi 0.
C10_Witness ==
  /\ Succeeded
  /\ soil_data.farm_size = Num(0)
  /\ \A i \in 1..Len(crop_analyses) :
       /\ crop_analyses[i].total_cost = Num(0)
       /\ crop_analyses[i].roi = Num(0)

\* The request with farm_size doubled, the other inputs fixed.
Doubled(data) == [data EXCEPT !.farm_size = RMul(Num(2), data.farm_size)]

\* The ranked list the handler computes for a request.
RankingOf(data) == SortByRoiDesc(AnalyzeEach(data))

Twice(x) == RMul(Num(2), x)

\* C11 as stated: doubling farm_size exactly doubles each crop's reported
\* total_revenue, total_cost and net_profit and leaves its reported roi and
\* suitability_score, and the ranking, unchanged.
C11_ReportedTotalsDoubleExactly ==
  (Handled /\ ValidSample(soil_data)) =>
    LET doubled == RankingOf(Doubled(soil_data))
    IN
    \A i \in 1..Len(crop_analyses) :
      LET a == crop_analyses[i]
          b == doubled[i]
      IN  /\ b.crop_id = a.crop_id
          /\ b.total_revenue = Twice(a.total_revenue)
          /\ b.total_cost = Twice(a.total_cost)
          /\ b.net_profit = Twice(a.net_profit)
          /\ b.roi = a.roi
          /\ b.suitability_score = a.suitability_score

\* C11 amended: doubling farm_size exactly doubles each crop's total_revenue,
\* total_cost and net_profit before rounding; the reported totals are these
\* rounded to two decimals, so that a reported total of the doubled farm is
\* within 0.01 of twice the one reported before; the reported roi and
\* suitability_score, and the ranking, are unchanged.
C11_TotalsDoubleBeforeRounding ==
  (Handled /\ ValidSample(soil_data)) =>
    LET doubled == RankingOf(Doubled(soil_data))
    IN
    \A i \in 1..Len(crop_analyses) :
      LET a == crop_analyses[i]
          b == doubled[i]
          v == LocalsAt(a.crop_id, soil_data, soil_data.ph)
          w == LocalsAt(a.crop_id, Doubled(soil_data), soil_data.ph)
      IN  /\ b.crop_id = a.crop_id
          /\ w.total_revenue = Twice(v.total_revenue)
          /\ w.total_cost = Twice(v.total_cost)
          /\ w.net_profit = Twice(v.net_profit)
          /\ Within(b.total_revenue, Twice(a.total_revenue), Rat(1, 100))
          /\ Within(b.total_cost, Twice(a.total_cost), Rat(1, 100))
          /\ Within(b.net_profit, Twice(a.net_profit), Rat(1, 100))
          /\ b.roi = a.roi
          /\ b.suitability_score = a.suitability_score

\* A valid sample one of whose crops has a reported total_cost that is not
\* half the one reported for the doubled farm, with a roi other than 0.
C11_Witness ==
  /\ Succeeded /\ ValidSample(soil_data)
  /\ LET doubled == RankingOf(Doubled(soil_data))
     IN  \E i \in 1..Len(crop_analyses) :
           /\ doubled[i].total_cost # Twice(crop_analyses[i].total_cost)
           /\ RSign(crop_analyses[i].roi) # 0

\* C12: calling the analysis twice with identical input yields identical
\* output: whatever the time of the call and whatever happens outside the
\* request, another call with the input of the call just answered gives the
\* same ranking and the same response, for every valid sample.
C12_SameInputSameOutput ==
  (Handled /\ ValidSample(soil_data)) =>
    \A insert_ok \in BOOLEAN, now \in 1..(MaxRecords + 1) :
      /\ predict_profitable_crops(soil_data, insert_ok, now).ranked = crop_analyses
      /\ predict_profitable_crops(soil_data, insert_ok, now).response = response

\* min(1, current / requirement), written out.
CappedRatio(current, requirement) ==
  IF RLe(requirement, current) THEN Num(1) ELSE RDiv(current, requirement)

\* 0.5 * min(1, N/req_N) + 0.3 * min(1, P/req_P) + 0.2 * min(1, K/req_K)
WeightedEfficiency(n, p, k, req) ==
  RAdd(RAdd(RMul(Rat(1, 2), CappedRatio(n, req.N)),
            RMul(Rat(3, 10), CappedRatio(p, req.P))),
       RMul(Rat(1, 5), CappedRatio(k, req.K)))

\* The smaller of a sample value and the requirement.
Capped(current, requirement) ==
  IF RLe(requirement, current) THEN requirement ELSE current

\* C13: for every crop the nutrient efficiency is
\* 0.5*min(1, N/req_N) + 0.3*min(1, P/req_P) + 0.2*min(1, K/req_K); a surplus
\* counts as full satisfaction and no more; for non-negative nutrient values
\* the efficiency is between 0 and 1, and it is 1 (the sum of the weights)
\* exactly when all three requirements are met.
C13_EfficiencyWeightedAndCapped ==
  (Handled /\ Numeric(soil_data)) =>
    \A c \in CropIds :
      LET req == CROP_DATA[c].nutrient_requirements
          n   == soil_data.nitrogen
          p   == soil_data.phosphorus
          k   == soil_data.potassium
          e   == calculate_nutrient_efficiency(n, p, k, req)
      IN  /\ e = WeightedEfficiency(n, p, k, req)
          /\ e = LocalsAt(c, soil_data, soil_data.ph).nutrient_efficiency
          /\ e = calculate_nutrient_efficiency(Capped(n, req.N), Capped(p, req.P),
                                               Capped(k, req.K), req)
          /\ RLe(e, calculate_nutrient_efficiency(req.N, req.P, req.K, req))
          /\ calculate_nutrient_efficiency(req.N, req.P, req.K, req) = Num(1)
          /\ (RSign(n) >= 0 /\ RSign(p) >= 0 /\ RSign(k) >= 0) =>
               /\ RLe(Num(0), e) /\ RLe(e, Num(1))
               /\ (e = Num(1)) <=>
                    (RLe(req.N, n) /\ RLe(req.P, p) /\ RLe(req.K, k))

\* A valid sample with a crop short of one nutrient and with a surplus of
\* another (efficiency strictly between 0 and 1), and a crop all of whose
\* requirements are met, one of them with a surplus.
C13_Witness ==
  /\ Succeeded /\ ValidSample(soil_data)
  /\ \E c \in CropIds :
       LET req == CROP_DATA[c].nutrient_requirements
           e   == LocalsAt(c, soil_data, soil_data.ph).nutrient_efficiency
       IN  /\ RLt(soil_data.nitrogen, req.N)
           /\ RLt(req.P, soil_data.phosphorus)
           /\ RLt(Num(0), e) /\ RLt(e, Num(1))
  /\ \E c \in CropIds :
       LET req == CROP_DATA[c].nutrient_requirements
       IN  /\ RLt(req.N, soil_data.nitrogen)
           /\ RLe(req.P, soil_data.phosphorus)
           /\ RLe(req.K, soil_data.potassium)
           /\ LocalsAt(c, soil_data, soil_data.ph).nutrient_efficiency = Num(1)

\* (deficit_N/0.46/50)*25 + (deficit_P/0.46/50)*35 + (deficit_K/0.60/50)*20
BagCost(n_deficit, p_deficit, k_deficit) ==
  RAdd(RAdd(RMul(RDiv(RDiv(n_deficit, Rat(46, 100)), Num(50)), Num(25)),
            RMul(RDiv(RDiv(p_deficit, Rat(46, 100)), Num(50)), Num(35))),
       RMul(RDiv(RDiv(k_deficit, Rat(60, 100)), Num(50)), Num(20)))

\* C14: for every crop the fertilizer cost per hectare is
\* (deficit_N/0.46/50)*price_urea + (deficit_P/0.46/50)*price_phosphate
\* + (deficit_K/0.60/50)*price_potash with the prices of the table; it is
\* never negative, and it is 0 exactly when the three deficits are 0, in which
\* case the total cost per hectare is the crop's other costs alone.
C14_FertilizerCostFromDeficits ==
  (Handled /\ Numeric(soil_data)) =>
    \A c \in CropIds :
      LET req == CROP_DATA[c].nutrient_requirements
          dn  == ExactDeficit(req.N, soil_data.nitrogen)
          dp  == ExactDeficit(req.P, soil_data.phosphorus)
          dk  == ExactDeficit(req.K, soil_data.potassium)
          v   == LocalsAt(c, soil_data, soil_data.ph)
          met == dn = Num(0) /\ dp = Num(0) /\ dk = Num(0)
      IN  /\ FERTILIZER_PRICES.urea = Num(25)
          /\ FERTILIZER_PRICES.dap = Num(35)
          /\ FERTILIZER_PRICES.mop = Num(20)
          /\ v.fertilizer_cost_per_ha = BagCost(dn, dp, dk)
          /\ RSign(v.fertilizer_cost_per_ha) >= 0
          /\ (RSign(v.fertilizer_cost_per_ha) = 0) <=> met
          /\ met => v.total_cost_per_ha = other_costs(c)
          /\ ~met => RLt(other_costs(c), v.total_cost_per_ha)

\* A valid sample with a crop that needs no fertilizer, its cost per hectare
\* being its other costs, and a crop short of one nutrient only, at a cost.
C14_Witness ==
  /\ Succeeded /\ ValidSample(soil_data)
  /\ \E c \in CropIds :
       LET v == LocalsAt(c, soil_data, soil_data.ph)
       IN  /\ v.fertilizer_cost_per_ha = Num(0)
           /\ v.total_cost_per_ha = other_costs(c)
  /\ \E c \in CropIds :
       LET v == LocalsAt(c, soil_data, soil_data.ph)
       IN  /\ RSign(v.n_deficit) > 0
           /\ v.p_deficit = Num(0) /\ v.k_deficit = Num(0)
           /\ RSign(v.fertilizer_cost_per_ha) > 0

\* base_yield * efficiency * ph_factor, written out.
YieldOf(c, data) ==
  RMul(RMul(CROP_DATA[c].base_yield,
            WeightedEfficiency(data.nitrogen, data.phosphorus, data.potassium,
                               CROP_DATA[c].nutrient_requirements)),
       IF InPhRange(c, data.ph) THEN Num(1) ELSE Rat(7, 10))

\* The per-hectare economics of C15, which hold of the handler's locals
\* whatever the rounding of the report.
EconomicsPerHectare(c, data, v) ==
  /\ v.expected_yield = YieldOf(c, data)
  /\ v.revenue_per_ha = RMul(YieldOf(c, data), CROP_DATA[c].market_price)
  /\ v.total_cost_per_ha =
       RAdd(BagCost(ExactDeficit(CROP_DATA[c].nutrient_requirements.N, data.nitrogen),
                    ExactDeficit(CROP_DATA[c].nutrient_requirements.P, data.phosphorus),
                    ExactDeficit(CROP_DATA[c].nutrient_requirements.K, data.potassium)),
            base_costs_per_ha[c])
  /\ v.net_profit_per_ha = RSub(v.revenue_per_ha, v.total_cost_per_ha)

\* C15 as stated: revenue_per_ha = expected_yield * market_price,
\* total_cost_per_ha = fertilizer_cost_per_ha + other costs, net_profit_per_ha
\* = revenue_per_ha - total_cost_per_ha with expected_yield = base_yield *
\* efficiency * ph_factor, and the reported total_revenue, total_cost and
\* net_profit are these per-hectare values multiplied by farm_size.
C15_ReportedTotalsAreProducts ==
  (Handled /\ ValidSample(soil_data)) =>
    \A i \in 1..Len(crop_analyses) :
      LET a == crop_analyses[i]
          v == LocalsAt(a.crop_id, soil_data, soil_data.ph)
      IN  /\ EconomicsPerHectare(a.crop_id, soil_data, v)
          /\ a.total_revenue = RMul(v.revenue_per_ha, soil_data.farm_size)
          /\ a.total_cost = RMul(v.total_cost_per_ha, soil_data.farm_size)
          /\ a.net_profit = RMul(v.net_profit_per_ha, soil_data.farm_size)

\* C15 amended: the per-hectare relations hold, and the reported
\* total_revenue, total_cost and net_profit are the per-hectare values
\* multiplied by farm_size and then rounded to two decimals.
C15_ReportedTotalsAreRoundedProducts ==
  (Handled /\ ValidSample(soil_data)) =>
    \A i \in 1..Len(crop_analyses) :
      LET a == crop_analyses[i]
          v == LocalsAt(a.crop_id, soil_data, soil_data.ph)
      IN  /\ EconomicsPerHectare(a.crop_id, soil_data, v)
          /\ Decimals(a.total_revenue, 2)
          /\ Decimals(a.total_cost, 2)
          /\ Decimals(a.net_profit, 2)
          /\ Within(a.total_revenue, RMul(v.revenue_per_ha, soil_data.farm_size),
                    Rat(1, 200))
          /\ Within(a.total_cost, RMul(v.total_cost_per_ha, soil_data.farm_size),
                    Rat(1, 200))
          /\ Within(a.net_profit, RMul(v.net_profit_per_ha, soil_data.farm_size),
                    Rat(1, 200))

\* A farm of more than one hectare with a crop at a profit whose reported
\* total_cost is not the exact product.
C15_Witness ==
  /\ Succeeded /\ ValidSample(soil_data)
  /\ RLt(Num(1), soil_data.farm_size)
  /\ \E i \in 1..Len(crop_analyses) :
       LET a == crop_analyses[i]
           v == LocalsAt(a.crop_id, soil_data, soil_data.ph)
       IN  /\ a.total_cost # RMul(v.total_cost_per_ha, soil_data.farm_size)
           /\ RSign(a.net_profit) > 0

\* The sample of the corn scenario: exactly corn's requirements, on 10 ha.
CornSample == Sample(Num(150), Num(70), Num(60), Rat(65, 10), Num(10))

\* C16: for the sample N=150, P=70, K=60, ph=6.5, farm_size=10 the corn entry
\* has all three nutrient deficits 0, efficiency 1.0, ph_factor 1.0 with
\* ph_suitable true, expected_yield 6.0, fertilizer cost 0 with all bag
\* counts 0, and a total cost of corn's other costs per hectare times 10.
C16_CornScenario ==
  (Handled /\ soil_data = CornSample) =>
    \E i \in 1..Len(crop_analyses) :
      LET a == crop_analyses[i]
          v == LocalsAt("corn", soil_data, soil_data.ph)
      IN  /\ a.crop_id = "corn"
          /\ \A j \in 1..Len(crop_analyses) : crop_analyses[j].crop_id = "corn" => j = i
          /\ v.n_deficit = Num(0) /\ v.p_deficit = Num(0) /\ v.k_deficit = Num(0)
          /\ a.nutrient_deficits =
               [nitrogen |-> Num(0), phosphorus |-> Num(0), potassium |-> Num(0)]
          /\ v.nutrient_efficiency = Num(1)
          /\ v.ph_factor = Num(1)
          /\ a.ph_suitable
          /\ a.suitability_score = Num(100)
          /\ v.expected_yield = Num(6)
          /\ a.expected_yield = Num(6)
          /\ v.fertilizer_cost_per_ha = Num(0)
          /\ a.fertilizer_plan.urea_bags = Num(0)
          /\ a.fertilizer_plan.dap_bags = Num(0)
          /\ a.fertilizer_plan.mop_bags = Num(0)
          /\ a.fertilizer_plan.total_fertilizer_cost = Num(0)
          /\ v.total_cost_per_ha = base_costs_per_ha.corn
          /\ a.total_cost = RMul(base_costs_per_ha.corn, Num(10))
          /\ a.total_cost = Num(1800)

\* The scenario's request answered with a success whose top_crops has the
\* corn entry, with the total cost of 1800.
C16_Witness ==
  /\ Succeeded
  /\ soil_data = CornSample
  /\ \E i \in 1..Len(response.body[1].top_crops) :
       /\ response.body[1].top_crops[i].crop_id = "corn"
       /\ response.body[1].top_crops[i].total_cost = Num(1800)
       /\ response.body[1].top_crops[i].expected_yield = Num(6)

\* C17: every valid input is answered with a success: once the input has
\* passed validation no later step, the scoring, the ranking, the
\* recommendations or the insert of the audit record, makes the operation fail.
C17_ValidInputSucceeds ==
  (Handled /\ ValidSample(soil_data)) =>
    /\ response.status_code = HTTP_200_OK
    /\ Len(response.body) = 1
    /\ response.body[1].status = "success"

\* The positions of the recommendations with a given text.
Positions(recs, text) == {j \in 1..Len(recs) : recs[j].text = text}

MarketAdvice ==
  Message("Monitor market prices regularly for timing your sales", "", Num(0))

RotationAdvice ==
  Message("Consider crop rotation to maintain soil health", "", Num(0))

\* C18: generate_recommendations applied to a non-empty ranked prefix returns
\* a sequence whose first string names the top crop and its roi, whose last
\* two strings are the market-monitoring and the crop-rotation advice in that
\* order, and which has an "Alternative" string, naming the second-ranked
\* crop and its roi, exactly when the prefix has at least two entries; applied
\* to the empty prefix it returns the two fixed strings only.
C18_RecommendationsShape ==
  Handled =>
    /\ \A n \in 0..Len(crop_analyses) :
         LET top  == Prefix(crop_analyses, n)
             recs == generate_recommendations(top)
             len  == Len(recs)
         IN  /\ len >= 2
             /\ recs[len - 1] = MarketAdvice
             /\ recs[len] = RotationAdvice
             /\ n = 0 => len = 2
             /\ n > 0 =>
                  recs[1] = Message("Plant for maximum profitability",
                                    top[1].crop_name, top[1].roi)
             /\ (Positions(recs, "Alternative") # {}) <=> (n >= 2)
             /\ \A j \in Positions(recs, "Alternative") :
                  /\ recs[j].crop = top[2].crop_name
                  /\ recs[j].value = top[2].roi
                  /\ 1 < j /\ j = len - 2
    /\ Succeeded =>
         response.body[1].recommendations =
           generate_recommendations(Prefix(crop_analyses, STORED_CROPS))

\* A success whose recommendations name the best crop first and, before the
\* two fixed strings, another crop as the alternative.
C18_Witness ==
  /\ Succeeded /\ ValidSample(soil_data)
  /\ LET recs == response.body[1].recommendations
     IN  /\ recs[1].text = "Plant for maximum profitability"
         /\ recs[1].crop = crop_analyses[1].crop_name
         /\ \E j \in 2..(Len(recs) - 2) :
              /\ recs[j].text = "Alternative"
              /\ recs[j].crop = crop_analyses[2].crop_name
              /\ recs[j].crop # recs[1].crop
              /\ recs[j].value # recs[1].value
         /\ recs[Len(recs)] = RotationAdvice

\* The crop has at least one positive nutrient deficit for the request.
NeedsFertilizer(c, data) ==
  \/ RLt(data.nitrogen, CROP_DATA[c].nutrient_requirements.N)
  \/ RLt(data.phosphorus, CROP_DATA[c].nutrient_requirements.P)
  \/ RLt(data.potassium, CROP_DATA[c].nutrient_requirements.K)

InvestAdvice(recs) == Positions(recs, "Invest in fertilizers for optimal yield")

\* C19 as stated: the recommendations include the fertilizer investment
\* message, stating the top crop's total fertilizer cost, exactly when the
\* top-ranked crop's fertilizer cost is > 0, that is exactly when that crop
\* has at least one positive nutrient deficit.
C19_InvestmentIffDeficit ==
  (Succeeded /\ ValidSample(soil_data)) =>
    LET recs == response.body[1].recommendations
        best == crop_analyses[1]
    IN  /\ (InvestAdvice(recs) # {}) <=>
             (RSign(best.fertilizer_plan.total_fertilizer_cost) > 0)
        /\ (InvestAdvice(recs) # {}) <=> NeedsFertilizer(best.crop_id, soil_data)
        /\ \A j \in InvestAdvice(recs) :
             recs[j].value = best.fertilizer_plan.total_fertilizer_cost

\* C19 amended: the message is included, stating the top crop's reported
\* total fertilizer cost, exactly when that reported cost (the cost per
\* hectare times farm_size, rounded to two decimals) is > 0; then the top
\* crop has at least one positive nutrient deficit; it is never included when
\* the top crop needs no fertilizer, nor when the cost of what it needs
\* rounds to 0.00.
C19_InvestmentIffReportedCost ==
  Succeeded =>
    LET recs == response.body[1].recommendations
        best == crop_analyses[1]
        v    == LocalsAt(best.crop_id, soil_data, soil_data.ph)
        cost == RMul(v.fertilizer_cost_per_ha, soil_data.farm_size)
    IN  /\ (InvestAdvice(recs) # {}) <=>
             (RSign(best.fertilizer_plan.total_fertilizer_cost) > 0)
        /\ best.fertilizer_plan.total_fertilizer_cost = Round(cost, 2)
        /\ InvestAdvice(recs) # {} => NeedsFertilizer(best.crop_id, soil_data)
        /\ ~NeedsFertilizer(best.crop_id, soil_data) => InvestAdvice(recs) = {}
        /\ InvestAdvice(recs) = {} => RLe(cost, Rat(1, 200))
        /\ Cardinality(InvestAdvice(recs)) <= 1
        /\ \A j \in InvestAdvice(recs) :
             /\ j = 2
             /\ recs[j].value = best.fertilizer_plan.total_fertilizer_cost

\* A success whose top crop has a positive deficit and a total fertilizer
\* cost that is reported as 0, so that the message is left out.
C19_Witness ==
  /\ Succeeded /\ ValidSample(soil_data)
  /\ NeedsFertilizer(crop_analyses[1].crop_id, soil_data)
  /\ RSign(LocalsAt(crop_analyses[1].crop_id, soil_data,
                    soil_data.ph).fertilizer_cost_per_ha) > 0
  /\ crop_analyses[1].fertilizer_plan.total_fertilizer_cost = Num(0)
  /\ InvestAdvice(response.body[1].recommendations) = {}

PhAdvice(recs) ==
  Positions(recs, "Consider soil pH adjustment for better crop performance")

\* The list with ph_suitable negated for the entries at the given positions.
WithPhFlipped(top_crops, at) ==
  [i \in 1..Len(top_crops) |->
     IF i \in at THEN [top_crops[i] EXCEPT !.ph_suitable = ~top_crops[i].ph_suitable]
     ELSE top_crops[i]]

\* C20: the recommendations include the soil pH adjustment message exactly
\* when the top-ranked crop's ph_suitable is false; the pH suitability of the
\* lower-ranked crops neither triggers nor suppresses it.
C20_PhAdviceFollowsTopCrop ==
  Succeeded =>
    LET recs == response.body[1].recommendations
        top  == Prefix(crop_analyses, STORED_CROPS)
    IN  /\ (PhAdvice(recs) # {}) <=> ~crop_analyses[1].ph_suitable
        /\ (PhAdvice(recs) # {}) <=> ~InPhRange(crop_analyses[1].crop_id, soil_data.ph)
        /\ Cardinality(PhAdvice(recs)) <= 1
        /\ (PhAdvice(predictions[Len(predictions)].recommendations) # {})
             <=> ~crop_analyses[1].ph_suitable
        /\ \A at \in SUBSET (2..Len(top)) :
             (PhAdvice(generate_recommendations(WithPhFlipped(top, at))) # {})
               <=> ~crop_analyses[1].ph_suitable

\* A success whose best crop is outside its pH range while a crop ranked
\* below it, among the three the recommendations are made from, is within
\* its own: the message is included.
C20_Witness ==
  /\ Succeeded /\ ValidSample(soil_data)
  /\ ~crop_analyses[1].ph_suitable
  /\ \E i \in 2..STORED_CROPS : crop_analyses[i].ph_suitable
  /\ PhAdvice(response.body[1].recommendations) # {}

\* C21: the crop catalog and the fertilizer price table are unchanged by any
\* sequence of analysis requests, valid or invalid: no entry and no price is
\* added, removed or modified at run time.
C21_CatalogNeverChanges ==
  /\ crop_data = CROP_DATA
  /\ fertilizer_prices = FERTILIZER_PRICES
  /\ DOMAIN crop_data = CropIds
  /\ Handled => \A i \in 1..Len(crop_analyses) :
       /\ crop_analyses[i].crop_name = crop_data[crop_analyses[i].crop_id].name
       /\ crop_analyses[i].market_price =
            crop_data[crop_analyses[i].crop_id].market_price

\* A request has been answered with a ranking read from the catalog, and a
\* record has been stored.
C21_Witness ==
  /\ Succeeded
  /\ Len(predictions) > 0
  /\ Len(crop_analyses) = Cardinality(DOMAIN crop_data)

\* The response the request of a call gets when the handler runs alone,
\* its insert having the outcome it had in the call.
ResponseAlone(c) ==
  predict_profitable_crops(calls[c].soil_data, calls[c].insert_ok, 1).response

\* C22: with calls in progress at the same time and without locking, under
\* every interleaving of their statements the response of each call is the
\* one its request gets when it runs alone, and the scoring and ranking
\* statements write nothing the calls share: the table holds the records of
\* the calls that inserted, the dictionaries are as they were.
C22_CallsDoNotInterfere ==
  /\ \A c \in CallIds :
       calls[c].pc = "done" =>
         /\ calls[c].response = ResponseAlone(c)
         /\ calls[c].response.status_code = HTTP_200_OK =>
              calls[c].crop_analyses = RankingOf(calls[c].soil_data)
  /\ \A c \in CallIds :
       calls[c].pc \in {"validate", "analyze", "insert"} =>
         \A i \in 1..Len(predictions) :
           \E d \in CallIds \ {c} :
             /\ calls[d].pc \in {"return", "done"}
             /\ predictions[i].input_data = calls[d].soil_data
  /\ Len(predictions) =
       Cardinality({c \in CallIds :
                      \/ calls[c].pc = "return"
                      \/ calls[c].pc = "done"
                           /\ calls[c].response.status_code = HTTP_200_OK})
  /\ crop_data = CROP_DATA /\ fertilizer_prices = FERTILIZER_PRICES

\* Two calls with different requests that were in their loops at the same
\* time have both been answered with a success.
C22_Witness ==
  /\ \A c \in CallIds :
       calls[c].pc = "done" /\ calls[c].response.status_code = HTTP_200_OK
  /\ calls["call-1"].soil_data # calls["call-2"].soil_data
  /\ calls["call-1"].response # calls["call-2"].response
  /\ predictions[1].input_data = calls["call-2"].soil_data
  /\ predictions[2].input_data = calls["call-1"].soil_data

\* soil_data lacks a required field.
Incomplete(data) ==
  \E i \in 1..Len(required_fields) : required_fields[i] \notin DOMAIN data

\* C23: whenever the endpoint answers with an error caused by the input, a
\* missing required field or a value that cannot be converted to a number
\* (which is answered 400 "Invalid input data"), no prediction record has
\* been inserted for the request and no crop has been analysed: the five
\* fields are validated and converted before the loop and before the insert.
C23_InputErrorIs400AndStoresNothing ==
  (Handled /\ ~Numeric(soil_data)) =>
    /\ response.status_code \in {HTTP_400_BAD_REQUEST, HTTP_500_INTERNAL_SERVER_ERROR}
    /\ response.body = <<>>
    /\ crop_analyses = <<>>
    /\ \A i \in 1..Len(predictions) : predictions[i].input_data # soil_data
    /\ ~Incomplete(soil_data) =>
         /\ response.status_code = HTTP_400_BAD_REQUEST
         /\ response.detail = "Invalid input data"
         /\ ~IsNum(soil_data[response.field])
         /\ \A i \in 1..Len(required_fields) :
              ~IsNum(soil_data[required_fields[i]]) =>
                FirstUnconvertible(soil_data) <= i

\* The call has been answered with a success.
Answered(c) ==
  calls[c].pc = "done" /\ calls[c].response.status_code = HTTP_200_OK

\* The positions of the table holding a record of the request data.
RecordsOf(data) ==
  {i \in 1..Len(predictions) : predictions[i].input_data = data}

\* The calls with the request data whose insert has been executed.
Inserted(data) ==
  {c \in CallIds : (calls[c].pc = "return" \/ Answered(c))
                   /\ calls[c].soil_data = data}

\* The record at position i holds the first three entries of the ranked list
\* of call c, the list whose first entries the call returns as top_crops,
\* and the recommendations generated from those three.
RecordMatches(i, c) ==
  LET body == calls[c].response.body[1]
      ranked == calls[c].crop_analyses
  IN  /\ \A j \in 1..(Len(ranked) - 1) : RLe(ranked[j + 1].roi, ranked[j].roi)
      /\ body.top_crops = Prefix(ranked, TOP_CROPS)
      /\ predictions[i].predictions = Prefix(ranked, STORED_CROPS)
      /\ predictions[i].predictions = Prefix(body.top_crops, STORED_CROPS)
      /\ predictions[i].recommendations =
           generate_recommendations(predictions[i].predictions)
      /\ predictions[i].recommendations = body.recommendations

\* Every successful request has one record in the table, with the first
\* three entries of its ranking.
OneRecordPerSuccess ==
  \A c \in CallIds :
    Answered(c) =>
      /\ Cardinality(RecordsOf(calls[c].soil_data)) =
           Cardinality(Inserted(calls[c].soil_data))
      /\ RecordsOf(calls[c].soil_data) # {}
      /\ \A i \in RecordsOf(calls[c].soil_data) : RecordMatches(i, c)

\* A step that returns a success finds the record of its request in the
\* table and leaves the table as it is.
InsertPrecedesResponse ==
  \A c \in CallIds :
    (calls[c].pc # "done" /\ calls'[c].pc = "done"
     /\ calls'[c].response.status_code = HTTP_200_OK) =>
      /\ RecordsOf(calls[c].soil_data) # {}
      /\ predictions' = predictions

\* C24: for every successful request exactly one prediction record is
\* inserted, the insert happens before the response is returned, the
\* predictions of the record are the first three entries of the roi-ranked
\* list whose first entries are returned as top_crops, and its
\* recommendations are generated from those three entries.
C24_OneRecordBeforeResponse ==
  []OneRecordPerSuccess /\ [][InsertPrecedesResponse]_vars

\* Two calls with the same request have both been answered with a success,
\* and the table holds one record for each.
C24_Witness ==
  /\ \A c \in CallIds : Answered(c)
  /\ calls["call-1"].soil_data = calls["call-2"].soil_data
  /\ Len(predictions) = 2
  /\ predictions[1].input_data = calls["call-1"].soil_data
  /\ predictions[2].input_data = calls["call-1"].soil_data
  /\ predictions[1].predictions = Prefix(calls["call-1"].crop_analyses, STORED_CROPS)

----------------------------------------------------------------------------
(* The demo application src/app/simple_main.py: its own catalog of five    *)
(* crops, its own copy of analyze_crop_profitability and a handler that    *)
(* stores nothing.  The names of the copy carry the prefix simple_.        *)

simple_CROP_DATA ==
  [ wheat   |-> [ name |-> "Wheat",
                  nutrient_requirements |->
                    [ N |-> Num(120), P |-> Num(60), K |-> Num(40),
                      pH_min |-> Num(6), pH_max |-> Rat(15, 2) ],
                  base_yield |-> Rat(9, 2), market_price |-> Num(250),
                  growing_season |-> 120, water_requirement |-> "medium" ],
    rice    |-> [ name |-> "Rice",
                  nutrient_requirements |->
                    [ N |-> Num(100), P |-> Num(50), K |-> Num(50),
                      pH_min |-> Rat(11, 2), pH_max |-> Num(7) ],
                  base_yield |-> Num(5), market_price |-> Num(350),
                  growing_season |-> 150, water_requirement |-> "high" ],
    corn    |-> [ name |-> "Corn",
                  nutrient_requirements |->
                    [ N |-> Num(150), P |-> Num(70), K |-> Num(60),
                      pH_min |-> Num(6), pH_max |-> Num(7) ],
                  base_yield |-> Num(6), market_price |-> Num(175),
                  growing_season |-> 100, water_requirement |-> "medium" ],
    cotton  |-> [ name |-> "Cotton",
                  nutrient_requirements |->
                    [ N |-> Num(80), P |-> Num(40), K |-> Num(80),
                      pH_min |-> Rat(29, 5), pH_max |-> Num(8) ],
                  base_yield |-> Rat(5, 2), market_price |-> Num(1200),
                  growing_season |-> 180, water_requirement |-> "high" ],
    soybean |-> [ name |-> "Soybean",
                  nutrient_requirements |->
                    [ N |-> Num(60), P |-> Num(80), K |-> Num(100),
                      pH_min |-> Num(6), pH_max |-> Num(7) ],
                  base_yield |-> Num(3), market_price |-> Num(400),
                  growing_season |-> 120, water_requirement |-> "medium" ] ]

\* simple_main's CROP_DATA.items(), in insertion order.
simple_CROP_ORDER == <<"wheat", "rice", "corn", "cotton", "soybean">>

simple_FERTILIZER_PRICES == [ urea |-> Num(25), dap |-> Num(35), mop |-> Num(20) ]

simple_base_costs_per_ha ==
  [ wheat |-> Num(200), rice |-> Num(250), corn |-> Num(180),
    cotton |-> Num(300), soybean |-> Num(150) ]

\* Faulty variant: the copy weighting the three nutrients equally.
simple_calculate_nutrient_efficiency_equal_weights(current_n, current_p, current_k, requirements) ==
  LET n_efficiency == IF RSign(requirements.N) > 0
                      THEN RMin1(RDiv(current_n, requirements.N)) ELSE Num(1)
      p_efficiency == IF RSign(requirements.P) > 0
                      THEN RMin1(RDiv(current_p, requirements.P)) ELSE Num(1)
      k_efficiency == IF RSign(requirements.K) > 0
                      THEN RMin1(RDiv(current_k, requirements.K)) ELSE Num(1)
  IN  RDiv(RAdd(RAdd(n_efficiency, p_efficiency), k_efficiency), Num(3))

\* simple_main lines 218-225.
simple_calculate_nutrient_efficiency(current_n, current_p, current_k, requirements) ==
  LET n_efficiency == IF RSign(requirements.N) > 0
                      THEN RMin1(RDiv(current_n, requirements.N)) ELSE Num(1)
      p_efficiency == IF RSign(requirements.P) > 0
                      THEN RMin1(RDiv(current_p, requirements.P)) ELSE Num(1)
      k_efficiency == IF RSign(requirements.K) > 0
                      THEN RMin1(RDiv(current_k, requirements.K)) ELSE Num(1)
  IN  RAdd(RAdd(RMul(n_efficiency, Rat(1, 2)), RMul(p_efficiency, Rat(3, 10))),
           RMul(k_efficiency, Rat(1, 5)))

\* simple_main lines 147-159: pH suitability, deficiencies and fertilizer
\* requirements in kg per hectare.
simple_requirements(crop_info, current_n, current_p, current_k, soil_ph) ==
  LET req == crop_info.nutrient_requirements
      suitable == RLe(req.pH_min, soil_ph) /\ RLe(soil_ph, req.pH_max)
      n_deficit == RMax0(RSub(req.N, current_n))
      p_deficit == RMax0(RSub(req.P, current_p))
      k_deficit == RMax0(RSub(req.K, current_k))
  IN  [ ph_suitable |-> suitable,
        ph_factor |-> IF suitable THEN Num(1) ELSE Rat(7, 10),
        urea_needed |-> RDiv(n_deficit, Rat(46, 100)),
        dap_needed |-> RDiv(p_deficit, Rat(46, 100)),
        mop_needed |-> RDiv(k_deficit, Rat(60, 100)) ]

\* simple_main lines 161-184: fertilizer cost, yield potential and the
\* economics per hectare.
simple_per_hectare(crop_id, crop_info, efficiency_factor, v) ==
  LET fertilizer_cost ==
        RAdd(RAdd(RMul(RDiv(v.urea_needed, Num(50)), simple_FERTILIZER_PRICES.urea),
                  RMul(RDiv(v.dap_needed, Num(50)), simple_FERTILIZER_PRICES.dap)),
             RMul(RDiv(v.mop_needed, Num(50)), simple_FERTILIZER_PRICES.mop))
      yield == RMul(RMul(crop_info.base_yield, efficiency_factor), v.ph_factor)
      other == IF crop_id \in DOMAIN simple_base_costs_per_ha
               THEN simple_base_costs_per_ha[crop_id] ELSE Num(200)
  IN  v @@ [ nutrient_efficiency |-> efficiency_factor,
             fertilizer_cost_per_ha |-> fertilizer_cost,
             expected_yield |-> yield,
             revenue_per_ha |-> RMul(yield, crop_info.market_price),
             total_cost_per_ha |-> RAdd(fertilizer_cost, other) ]

\* simple_main lines 186-192: the farm's totals and the ROI.
simple_totals(v, farm_size) ==
  LET total_cost == RMul(v.total_cost_per_ha, farm_size)
      net_profit == RMul(RSub(v.revenue_per_ha, v.total_cost_per_ha), farm_size)
  IN  v @@ [ total_revenue |-> RMul(v.revenue_per_ha, farm_size),
             total_cost |-> total_cost,
             net_profit |-> net_profit,
             roi |-> IF RSign(total_cost) > 0
                     THEN RMul(RDiv(net_profit, total_cost), Num(100))
                     ELSE Num(0) ]

\* simple_main lines 194-216: the fertilizer plan and the dictionary returned.
simple_report(crop_id, crop_info, farm_size, v) ==
  [ crop_id |-> crop_id,
    crop_name |-> crop_info.name,
    suitability_score |->
      Round(RMul(RMul(v.nutrient_efficiency, v.ph_factor), Num(100)), 1),
    expected_yield |-> Round(v.expected_yield, 2),
    total_yield |-> Round(RMul(v.expected_yield, farm_size), 2),
    market_price |-> crop_info.market_price,
    total_revenue |-> Round(v.total_revenue, 2),
    total_cost |-> Round(v.total_cost, 2),
    net_profit |-> Round(v.net_profit, 2),
    roi |-> Round(v.roi, 1),
    fertilizer_plan |->
      [ urea_bags |-> Round(RDiv(RMul(v.urea_needed, farm_size), Num(50)), 1),
        dap_bags |-> Round(RDiv(RMul(v.dap_needed, farm_size), Num(50)), 1),
        mop_bags |-> Round(RDiv(RMul(v.mop_needed, farm_size), Num(50)), 1),
        total_fertilizer_cost |->
          Round(RMul(v.fertilizer_cost_per_ha, farm_size), 2) ],
    growing_season_days |-> crop_info.growing_season,
    water_requirement |-> crop_info.water_requirement,
    ph_suitable |-> v.ph_suitable ]

\* simple_main lines 143-216.
simple_analyze_crop_profitability(crop_id, crop_info, current_n, current_p, current_k, soil_ph, farm_size) ==
  simple_report(crop_id, crop_info, farm_size,
    simple_totals(
      simple_per_hectare(crop_id, crop_info,
        simple_calculate_nutrient_efficiency(current_n, current_p, current_k,
                                             crop_info.nutrient_requirements),
        simple_requirements(crop_info, current_n, current_p, current_k, soil_ph)),
      farm_size))

\* simple_main lines 227-248.
simple_generate_recommendations(top_crops) ==
  (IF top_crops = <<>> THEN <<>>
   ELSE <<Message("Plant for maximum profitability", top_crops[1].crop_name, top_crops[1].roi)>>
        \o (IF RSign(top_crops[1].fertilizer_plan.total_fertilizer_cost) > 0
            THEN <<Message("Invest in fertilizers for optimal yield", "",
                           top_crops[1].fertilizer_plan.total_fertilizer_cost)>>
            ELSE <<>>)
        \o (IF ~top_crops[1].ph_suitable
            THEN <<Message("Consider soil pH adjustment for better crop performance",
                           "", Num(0))>>
            ELSE <<>>)
        \o (IF Len(top_crops) > 1
            THEN <<Message("Alternative", top_crops[2].crop_name, top_crops[2].roi)>>
            ELSE <<>>))
  \o <<Message("Monitor market prices regularly for timing your sales", "", Num(0)),
       Message("Consider crop rotation to maintain soil health", "", Num(0))>>

\* simple_main lines 109-116: the loop over CROP_DATA.items().
simple_AnalyzeEach(data) ==
  [i \in 1..Len(simple_CROP_ORDER) |->
     simple_analyze_crop_profitability(
       simple_CROP_ORDER[i], simple_CROP_DATA[simple_CROP_ORDER[i]],
       data.nitrogen, data.phosphorus, data.potassium, data.ph, data.farm_size)]

\* simple_main lines 121-138: the dictionary returned.
simple_success_body(data, ranked) ==
  [ status |-> "success",
    soil_analysis |-> [f \in DOMAIN data |-> data[f]],
    top_crops |-> Prefix(ranked, TOP_CROPS),
    summary |-> [ best_crop |-> ranked[1].crop_name,
                  max_roi |-> ranked[1].roi,
                  total_investment_needed |-> ranked[1].total_cost,
                  expected_profit |-> ranked[1].net_profit ],
    recommendations |-> simple_generate_recommendations(Prefix(ranked, STORED_CROPS)) ]

\* simple_main lines 97-141, for a body FastAPI has validated against
\* SoilDataRequest (five floats): the sorted analyses and the response.  No
\* statement of the try block raises for finite numbers, so the except
\* clause of lines 140-141 is not entered.
simple_respond(data, ranked) ==
  [ ranked |-> ranked,
    response |-> [status_code |-> HTTP_200_OK, detail |-> "", field |-> "",
                  body |-> <<simple_success_body(data, ranked)>>] ]

simple_predict_profitable_crops(data) ==
  simple_respond(data, SortByRoiDesc(simple_AnalyzeEach(data)))

\* Samples on three hectares at pH 5.9, outside the range of every crop but
\* rice and cotton, with each nutrient absent, short and plentiful.
GridSamples ==
  {Sample(Num(n), Num(p), Num(k), Rat(59, 10), Num(3)) :
     n \in {0, 60, 130}, p \in {0, 45, 90}, k \in {0, 50, 120}}

\* The bodies that pass the validation of SoilDataRequest.
SimpleRequests == ValidSamples \cup OutOfDomainSamples \cup GridSamples

\* A POST /api/profitable-crops/predict arrives at the demo application.
SimpleReceive(data) ==
  /\ pc = "idle"
  /\ pc' = "handling"
  /\ soil_data' = data
  /\ crop_analyses' = <<>>
  /\ response' = NoResponse
  /\ UNCHANGED <<predictions, crop_data, fertilizer_prices, calls, auth_vars>>

\* The demo handler runs to its response; it stores nothing.
SimpleHandle ==
  /\ pc = "handling"
  /\ crop_analyses' = simple_predict_profitable_crops(soil_data).ranked
  /\ response' = simple_predict_profitable_crops(soil_data).response
  /\ pc' = "idle"
  /\ UNCHANGED <<soil_data, predictions, crop_data, fertilizer_prices, calls, auth_vars>>

SimpleNext ==
  \/ \E data \in SimpleRequests : SimpleReceive(data)
  \/ SimpleHandle

SimpleSpec == Init /\ [][SimpleNext]_vars

\* The summary of a success body names the first entry of its top_crops, and
\* its max_roi is at least the roi of every analysis of the request.
SummaryIsBest(body, analyses) ==
  /\ body.summary.best_crop = body.top_crops[1].crop_name
  /\ body.summary.max_roi = body.top_crops[1].roi
  /\ body.summary.total_investment_needed = body.top_crops[1].total_cost
  /\ body.summary.expected_profit = body.top_crops[1].net_profit
  /\ \A i \in 1..Len(analyses) : RLe(analyses[i].roi, body.summary.max_roi)

\* C25: in every success response, of the endpoint and of the demo
\* application, summary.best_crop, max_roi, total_investment_needed and
\* expected_profit are the crop_name, roi, total_cost and net_profit of the
\* first entry of top_crops, and max_roi is >= the roi of every crop of the
\* catalog.
C25_SummaryIsFirstOfTopCrops ==
  Succeeded =>
    /\ SummaryIsBest(response.body[1], AnalyzeEach(soil_data))
    /\ SummaryIsBest(simple_predict_profitable_crops(soil_data).response.body[1],
                     simple_AnalyzeEach(soil_data))

\* A success whose best crop is not the first of the catalog and beats
\* another crop's roi, the demo application naming a different best crop.
C25_Witness ==
  /\ Succeeded
  /\ response.body[1].summary.best_crop # CROP_DATA.wheat.name
  /\ \E i \in 1..Len(crop_analyses) :
       RLt(crop_analyses[i].roi, response.body[1].summary.max_roi)
  /\ simple_predict_profitable_crops(soil_data).response.body[1].summary.best_crop
       # response.body[1].summary.best_crop

\* C26 as stated: for every crop and every accepted input, the reported
\* net_profit equals the reported total_revenue minus the reported
\* total_cost.
C26_ReportedFiguresConsistent ==
  Succeeded =>
    \A i \in 1..Len(crop_analyses) :
      crop_analyses[i].net_profit =
        RSub(crop_analyses[i].total_revenue, crop_analyses[i].total_cost)

\* C26, with the rounding: for every crop and every accepted input,
\* net_profit equals total_revenue minus total_cost before the three are
\* rounded to two decimals, each on its own; the reported net_profit is
\* within 0.01 of the reported total_revenue minus the reported total_cost.
C26_ReportedFiguresWithinOneCent ==
  Succeeded =>
    \A i \in 1..Len(crop_analyses) :
      LET v == LocalsAt(crop_analyses[i].crop_id, soil_data, soil_data.ph)
      IN  /\ v.net_profit = RSub(v.total_revenue, v.total_cost)
          /\ crop_analyses[i].total_revenue = Round(v.total_revenue, 2)
          /\ crop_analyses[i].total_cost = Round(v.total_cost, 2)
          /\ crop_analyses[i].net_profit = Round(v.net_profit, 2)
          /\ Within(crop_analyses[i].net_profit,
                    RSub(crop_analyses[i].total_revenue, crop_analyses[i].total_cost),
                    Rat(1, 100))

\* A crop whose three figures are each a rounding of a value that is no tie,
\* and whose reported net_profit is 0.01 above the difference of the other
\* two.
C26_Witness ==
  /\ Succeeded
  /\ \E i \in 1..Len(crop_analyses) :
       LET v == LocalsAt(crop_analyses[i].crop_id, soil_data, soil_data.ph)
       IN  /\ ~Decimals(RMul(v.total_revenue, Num(10)), 2)
           /\ ~Decimals(RMul(v.total_cost, Num(10)), 2)
           /\ ~Decimals(RMul(v.net_profit, Num(10)), 2)
           /\ crop_analyses[i].net_profit =
                RAdd(RSub(crop_analyses[i].total_revenue,
                          crop_analyses[i].total_cost), Rat(1, 100))

\* The request with one of its nutrient values raised by d.
Raised(data, nutrient, d) == [data EXCEPT ![nutrient] = RAdd(@, d)]

\* The report hi is at least as good as the report lo: score and yield not
\* lower, no deficit, bag count or fertilizer cost higher.
NoWorse(lo, hi) ==
  /\ RLe(lo.suitability_score, hi.suitability_score)
  /\ RLe(lo.expected_yield, hi.expected_yield)
  /\ RLe(hi.nutrient_deficits.nitrogen, lo.nutrient_deficits.nitrogen)
  /\ RLe(hi.nutrient_deficits.phosphorus, lo.nutrient_deficits.phosphorus)
  /\ RLe(hi.nutrient_deficits.potassium, lo.nutrient_deficits.potassium)
  /\ RLe(hi.fertilizer_plan.urea_bags, lo.fertilizer_plan.urea_bags)
  /\ RLe(hi.fertilizer_plan.dap_bags, lo.fertilizer_plan.dap_bags)
  /\ RLe(hi.fertilizer_plan.mop_bags, lo.fertilizer_plan.mop_bags)
  /\ RLe(hi.fertilizer_plan.total_fertilizer_cost,
         lo.fertilizer_plan.total_fertilizer_cost)

\* C27: for a fixed crop, pH and farm_size, raising one of nitrogen,
\* phosphorus or potassium while the other two stay fixed never lowers the
\* crop's suitability_score or expected_yield and never raises any of its
\* nutrient deficits, its fertilizer bag counts or its total_fertilizer_cost.
C27_MoreNutrientNeverHurts ==
  Succeeded =>
    \A nutrient \in {"nitrogen", "phosphorus", "potassium"} :
      \A d \in {Num(1), Num(60)} :
        \A c \in CropIds :
          NoWorse(ReportAt(c, soil_data, soil_data.ph),
                  ReportAt(c, Raised(soil_data, nutrient, d), soil_data.ph))

\* The crop of the analysis is in the catalog of the demo application too.
InBothCatalogs(analysis) ==
  \E i \in 1..Len(simple_CROP_ORDER) : simple_CROP_ORDER[i] = analysis.crop_id

\* The two analyses agree on every field both copies produce.
SameSharedFields(a, b) ==
  /\ \A f \in (DOMAIN a \cap DOMAIN b) \ {"fertilizer_plan"} : a[f] = b[f]
  /\ \A f \in DOMAIN a.fertilizer_plan \cap DOMAIN b.fertilizer_plan :
       a.fertilizer_plan[f] = b.fertilizer_plan[f]
  /\ {"crop_id", "suitability_score", "expected_yield", "total_yield",
      "total_revenue", "total_cost", "net_profit", "roi", "ph_suitable"}
       \subseteq DOMAIN a \cap DOMAIN b
  /\ {"urea_bags", "dap_bags", "mop_bags", "total_fertilizer_cost"}
       \subseteq DOMAIN a.fertilizer_plan \cap DOMAIN b.fertilizer_plan

\* C28: the two copies of the scoring engine agree.  For every crop of both
\* catalogs (wheat, rice, corn, cotton, soybean) and every input,
\* analyze_crop_profitability of simple_main.py and of
\* apis/profitable_crops.py return the same value for every field both
\* produce, and the two endpoints rank those crops in the same relative
\* order.
C28_CopiesAgree ==
  Handled =>
    LET ranked == RankingOf(soil_data)
    IN  /\ Len(crop_analyses) = Len(simple_CROP_ORDER)
        /\ \A i \in 1..Len(crop_analyses) :
             /\ crop_analyses[i].crop_id \in CropIds
             /\ SameSharedFields(
                  crop_analyses[i],
                  ReportAt(crop_analyses[i].crop_id, soil_data, soil_data.ph))
        /\ Len(SelectSeq(ranked, InBothCatalogs)) = Len(crop_analyses)
        /\ \A i \in 1..Len(crop_analyses) :
             SelectSeq(ranked, InBothCatalogs)[i].crop_id = crop_analyses[i].crop_id

\* The demo application has answered a request on a soil outside the pH
\* range of some crop, the endpoint ranks a crop the demo catalog lacks
\* above a crop of both catalogs, and the demo's ranking is not its catalog
\* order.
C28_Witness ==
  /\ Handled
  /\ Len(crop_analyses) = Len(simple_CROP_ORDER)
  /\ \E i \in 1..Len(crop_analyses) : ~crop_analyses[i].ph_suitable
  /\ \E i \in 1..(Len(RankingOf(soil_data)) - 1) :
       ~InBothCatalogs(RankingOf(soil_data)[i])
  /\ crop_analyses[1].crop_id # simple_CROP_ORDER[1]

----------------------------------------------------------------------------
(* The demo authentication API in operation. *)

Emails == {"farmer@agrismart.com", "new@agrismart.com"}

Passwords == {"password", "secret"}

\* Lines 19-32: the module is imported; the Supabase client is created when
\* SUPABASE_URL and SUPABASE_ANON_KEY are set, and stays None otherwise.
LoadModule(configured) ==
  /\ supabase = "unloaded"
  /\ supabase' = IF configured THEN "client" ELSE "None"
  /\ UNCHANGED <<users, MOCK_USERS, auth_request, auth_response>>
  /\ UNCHANGED <<pc, soil_data, crop_analyses, response, predictions, crop_data,
                 fertilizer_prices, calls>>

\* What register_user leaves behind.
Registered(email, password, r) ==
  /\ users' = r.users
  /\ MOCK_USERS' = r.MOCK_USERS
  /\ auth_response' = r.response
  /\ auth_request' = [op |-> "register", email |-> email, password |-> password]

\* POST /register.
Register(email, password, select_ok, insert) ==
  /\ supabase # "unloaded"
  /\ Registered(email, password,
       register_user(supabase, users, MOCK_USERS,
                     [email |-> email, password |-> password,
                      full_name |-> "New Farmer"],
                     select_ok, insert))
  /\ UNCHANGED supabase
  /\ UNCHANGED <<pc, soil_data, crop_analyses, response, predictions, crop_data,
                 fertilizer_prices, calls>>

\* POST /login.
Login(email, password) ==
  /\ supabase # "unloaded"
  /\ auth_request' = [op |-> "login", email |-> email, password |-> password]
  /\ auth_response' = login(MOCK_USERS, [email |-> email, password |-> password])
  /\ UNCHANGED <<supabase, users, MOCK_USERS>>
  /\ UNCHANGED <<pc, soil_data, crop_analyses, response, predictions, crop_data,
                 fertilizer_prices, calls>>

AuthNext ==
  \/ LoadModule(TRUE)
  \/ LoadModule(FALSE)
  \/ \E email \in Emails, password \in Passwords :
       \/ Register(email, password, TRUE, "data")
       \/ Register(email, password, TRUE, "empty")
       \/ Register(email, password, TRUE, "raises")
       \/ Register(email, password, FALSE, "raises")
       \/ Login(email, password)

AuthSpec == Init /\ [][AuthNext]_vars

\* The email has a user record, in the Supabase users table or in MOCK_USERS.
AlreadyRegistered(email) ==
  \/ email \in DOMAIN MOCK_USERS
  \/ \E i \in 1..Len(users) : users[i].email = email

\* The user records of the email, in the two stores together.
UserRecords(email) ==
  {users[i] : i \in {j \in 1..Len(users) : users[j].email = email}}
  \cup (IF email \in DOMAIN MOCK_USERS THEN {MOCK_USERS[email]} ELSE {})

\* A register call with an email that is already registered is answered 400
\* "User already exists" and leaves both stores as they are.
RegisteredEmailRejected ==
  (auth_request'.op = "register" /\ AlreadyRegistered(auth_request'.email)) =>
    /\ auth_response'.status_code = HTTP_400_BAD_REQUEST
    /\ auth_response'.detail = "User already exists"
    /\ users' = users
    /\ MOCK_USERS' = MOCK_USERS

\* C29: register called with an email that is already registered, in the
\* Supabase users table or in MOCK_USERS, is rejected with HTTP 400 "User
\* already exists" and creates or overwrites no user record; after any
\* sequence of register calls each email maps to at most one user, with the
\* password hash its first successful registration set.
C29_RegisteredEmailRejected ==
  /\ [][RegisteredEmailRejected]_vars
  /\ [](\A email \in Emails : Cardinality(UserRecords(email)) <= 1)

\* The last call was a register of the email and password, and it succeeded.
RegisterSucceeded(email, password) ==
  /\ auth_request = [op |-> "register", email |-> email, password |-> password]
  /\ auth_response.status_code = HTTP_200_OK

\* The last call was a login with the email and password.
LoginAttempt(email, password) ==
  auth_request = [op |-> "login", email |-> email, password |-> password]

\* The last call returned a token for the user of the email.
TokenReturned(email) ==
  /\ auth_response.status_code = HTTP_200_OK
  /\ auth_response.body[1].access_token.sub = email
  /\ auth_response.body[1].user.email = email

\* C30: after register has succeeded for an email and password, through the
\* Supabase path or the mock database, every later login with that email and
\* password succeeds and returns a token for that user; a login is answered
\* 401 only if the email is unknown or the password is wrong.
C30_LoginAfterRegister ==
  /\ \A email \in Emails : \A password \in Passwords :
       [](RegisterSucceeded(email, password) =>
            [](LoginAttempt(email, password) => TokenReturned(email)))
  /\ []((auth_request.op = "login"
         /\ auth_response.status_code = HTTP_401_UNAUTHORIZED) =>
          \/ ~AlreadyRegistered(auth_request.email)
          \/ \E user \in UserRecords(auth_request.email) :
               ~verify_password(auth_request.password, user.password_hash))

====
